---- MODULE Spec2Model ----
(***************************************************************************)
(* A model of the Kubernetes access layer of k8s-mcp-server (pkg/k8s):     *)
(* the kind -> GroupVersionResource cache (Client.getCachedGVR), the       *)
(* patch-then-create protocol (Client.CreateOrUpdateResourceJSON / YAML),  *)
(* the connection resolver (BuildKubernetesConfig) as main starts it, and  *)
(* the pod log aggregation (Client.GetPodsLogs).                           *)
(*                                                                         *)
(* Each component has its own specification (SpecCache, SpecApply,         *)
(* SpecMain, SpecResolve, SpecLogs) over the variables it uses; the other  *)
(* variables keep their initial value there.                               *)
(***************************************************************************)
EXTENDS Integers, Sequences, FiniteSets, TLC

\* ---------------------------------------------------------------- bounds
\* Concurrent tool calls that resolve kinds.
NumWorkers == 2
\* Calls to getCachedGVR made in all, by any worker.
MaxCalls == 3
\* createOrUpdate calls made one after the other.
MaxApplyCalls == 2
\* The most containers a pod declares.
MaxContainers == 3
\* RolloutRestart calls made one after the other.
MaxRestartCalls == 2
\* Read, delete and metrics calls made one after the other.
MaxAccessCalls == 2
\* The most ingresses the cluster has.
MaxIngresses == 2

\* ------------------------------------------------------------ kind cache

VARIABLES
    apiResourceCache,   \* Client.apiResourceCache: kind -> GVR (a function on the cached kinds)
    cacheLock,          \* Client.cacheLock: [readers: set of workers, writer: set of workers]
    discovery,          \* the cluster: index of the answer ServerPreferredResources gives now
    rpc,                \* per worker: where it is in getCachedGVR
    rkind,              \* per worker: the kind argument
    rgvr,               \* per worker: the gvr built by the scan / returned
    rerr,               \* per worker: the error returned ("" for nil)
    ncalls,             \* calls started so far
    ndisc,              \* per worker: discovery calls the current call made
    nstore,             \* per worker: cache writes the current call made
    startSeen,          \* per worker: coordinates earlier calls had returned for rkind when this call started
    returnedOK,         \* per kind: coordinates returned by finished successful calls
    answersUsed,        \* per kind: the discovery answers (indices) that calls for it received
    rans,               \* per worker: the answer (index) its current call received, 0 if none
    callCount,          \* per kind: calls started for it
    discCount           \* per kind: discovery calls made for it

cacheVars == <<apiResourceCache, cacheLock, discovery, rpc, rkind, rgvr, rerr,
               ncalls, ndisc, nstore, startSeen, returnedOK, answersUsed, rans,
               callCount, discCount>>

\* -------------------------------------------------------- createOrUpdate

VARIABLES
    namespaces,         \* the cluster: the namespaces that exist
    objects,            \* the cluster: <<resource, namespace, name>> -> stored document
    apc,                \* where the call is: "idle", "resolve", "nsGet", "nsCreate", "patch", "create", "done"
    aargs,              \* the arguments: [format, namespace, manifest, kind]
    aobj,               \* obj: the parsed manifest, with the namespace override once applied
    agvr,               \* the resolved gvr
    ahist,              \* the cluster calls this call issued, in order: [call, out, absent]
    aerr,               \* the error returned ("" for nil)
    ares,               \* the document returned
    aprev,              \* the previous call: its arguments, error, target and the document stored when it returned
    acalls,             \* calls started so far
    akind,              \* the kind the call handed to getCachedGVR, "none" before that
    astart              \* the cluster when the call started: [objects, namespaces]

applyVars == <<namespaces, objects, apc, aargs, aobj, agvr, ahist, aerr, ares,
               aprev, acalls, akind, astart>>

cacheWorkerVars == <<cacheLock, rpc, rkind, rgvr, rerr, ncalls, ndisc, nstore,
                     startSeen, returnedOK, answersUsed, rans, callCount, discCount>>

\* ------------------------------------------- connection resolver and main

VARIABLES
    env,                \* the process environment and the files the resolver looks at
    kpath,              \* the kubeconfigPath argument of a BuildKubernetesConfig call on its own
    built,              \* what that call returned
    mpc,                \* where main is
    flags,              \* the parsed flags: [readOnly, noK8s, noHelm, mode]
    resolverLog,        \* the runs of BuildKubernetesConfig so far: [path, result]
    k8sClient,          \* client: [restConfig, run], or NoClient
    helmClient,         \* helmClient: [restConfig, run], or NoClient
    tools               \* the tools added to the MCP server

mainVars == <<env, kpath, built, mpc, flags, resolverLog, k8sClient, helmClient, tools>>

\* ----------------------------------------------------------- GetPodsLogs

VARIABLES
    podExists,          \* whether Pods(namespace).Get finds the pod
    podContainers,      \* pod.Spec.Containers, the names in declaration order
    containerName,      \* the containerName argument
    lpc,                \* where the call is
    idx,                \* the position of the range loop in pod.Spec.Containers
    allLogs,            \* the strings.Builder, as the sequence of what was written
    visits,             \* the streams asked for so far: [container, outcome]
    podGets,            \* the Pods(namespace).Get calls made so far
    lres                \* what the call returned: [logs, err]

logVars == <<podExists, podContainers, containerName, lpc, idx, allLogs, visits,
            podGets, lres>>

\* -------------------------------------------------------- RolloutRestart

VARIABLES
    workloads,          \* the objects of the cluster a restart can address, by key
    rrpc,               \* where the call is
    rrargs,             \* the arguments [kind, name, namespace] and the clock reading
    rrgvr,              \* gvr
    rrresult,           \* result of resource.Patch, or NoWorkload
    rrhist,             \* the cluster calls of the call so far
    rrbefore,           \* the addressed object as it was when the call started
    rrres,              \* what the call returned: [content, err]
    rrcalls             \* calls started so far

restartVars == <<workloads, rrpc, rrargs, rrgvr, rrresult, rrhist, rrbefore, rrres,
                rrcalls>>

\* ------------------------------------- reads, delete and metrics reads

VARIABLES
    opc,                \* where the call is
    oargs,              \* the operation and its arguments: [op, kind, name, namespace]
    ogvr,               \* gvr
    ohist,              \* the cluster calls of the call so far: [call, target, out]
    ores,               \* what the call returned: [value, err]
    ocalls,             \* calls started so far
    oprev               \* the previous call: its arguments and what it returned

accessVars == <<opc, oargs, ogvr, ohist, ores, ocalls, oprev>>

\* ----------------------------------------------------------- GetIngresses

VARIABLES
    ingresses,          \* the ingresses of the cluster, as the list call returns them
    host,               \* the host argument
    ipc,                \* where the call is
    ires                \* what the call returned: [list, err]

ingressVars == <<ingresses, host, ipc, ires>>

\* ------------------------------------------- concurrent createOrUpdate

VARIABLES
    pargs,              \* the arguments the concurrent calls share: [format, namespace, manifest, kind]
    ppc,                \* per worker: where its call is
    pobj,               \* per worker: obj
    pgvr,               \* per worker: gvr
    phist,              \* per worker: the cluster calls it issued, in order: [call, out]
    perr                \* per worker: the error returned ("" for nil, "none" before the return)

pairVars == <<pargs, ppc, pobj, pgvr, phist, perr>>

outsideCache == <<applyVars, mainVars, logVars, restartVars, accessVars, ingressVars, pairVars>>
outsideApply == <<mainVars, logVars, restartVars, accessVars, ingressVars, pairVars>>
outsideMain == <<cacheVars, applyVars, logVars, restartVars, accessVars, ingressVars, pairVars>>
outsideLogs == <<cacheVars, applyVars, mainVars, restartVars, accessVars, ingressVars, pairVars>>

outsideRestart == <<applyVars, mainVars, logVars, accessVars, ingressVars, pairVars>>
outsideAccess == <<applyVars, mainVars, logVars, ingressVars, pairVars>>
outsideIngress == <<cacheVars, applyVars, mainVars, logVars, restartVars, accessVars, pairVars>>
outsidePair == <<mainVars, logVars, restartVars, accessVars, ingressVars>>
Workers == 1..NumWorkers

\* A group/version string is kept as its sequence of tokens, "/" being a token.
CoreV1 == <<"v1">>
AppsV1 == <<"apps", "/", "v1">>
ExtV1beta1 == <<"extensions", "/", "v1beta1">>
ExampleV1 == <<"example.com", "/", "v1">>
BadGV == <<"a", "/", "b", "/", "c">>

Res(name, kind) == [Name |-> name, Kind |-> kind]

\* The answers the cluster's discovery endpoint can give. err is "" (nil),
\* "partial" (ErrGroupDiscoveryFailed: some groups failed, the others are
\* returned) or "hard" (any other error, no lists).
Answers ==
    << [lists |-> << [GroupVersion |-> CoreV1,
                      APIResources |-> <<Res("pods", "Pod"), Res("ghosts", "ghost")>>],
                     [GroupVersion |-> AppsV1,
                      APIResources |-> <<Res("deployments", "Deployment")>>],
                     [GroupVersion |-> BadGV,
                      APIResources |-> <<Res("badwidgets", "Widget")>>],
                     [GroupVersion |-> ExampleV1,
                      APIResources |-> <<Res("widgets", "Widget")>>] >>,
        err |-> ""],
       \* the cluster redefined Deployment: extensions/v1beta1 is listed first
       [lists |-> << [GroupVersion |-> CoreV1,
                      APIResources |-> <<Res("pods", "Pod")>>],
                     [GroupVersion |-> ExtV1beta1,
                      APIResources |-> <<Res("deployments", "Deployment")>>],
                     [GroupVersion |-> AppsV1,
                      APIResources |-> <<Res("deployments", "Deployment")>>] >>,
        err |-> ""],
       \* the example.com group failed: partial discovery
       [lists |-> << [GroupVersion |-> CoreV1,
                      APIResources |-> <<Res("pods", "Pod")>>],
                     [GroupVersion |-> AppsV1,
                      APIResources |-> <<Res("deployments", "Deployment")>>] >>,
        err |-> "partial"],
       \* discovery failed altogether
       [lists |-> << >>, err |-> "hard"] >>

\* The kinds tool calls ask for. "Ghost" is in no answer (only "ghost" is).
KindNames == {"Deployment", "Widget", "Ghost"}

NoGVR == [Group |-> << >>, Version |-> << >>, Resource |-> ""]

\* The mutant of ParseGroupVersion: a string with more than one "/" is
\* split at the first.
ParseGroupVersionLenient(gv) ==
    LET slashes == {i \in DOMAIN gv : gv[i] = "/"}
    IN  IF gv = << >> \/ gv = <<"/">>
          THEN [ok |-> TRUE, Group |-> << >>, Version |-> << >>]
        ELSE IF slashes = {}
          THEN [ok |-> TRUE, Group |-> << >>, Version |-> gv]
        ELSE LET i == CHOOSE j \in slashes : \A l \in slashes : j <= l
             IN  [ok |-> TRUE, Group |-> SubSeq(gv, 1, i - 1),
                  Version |-> SubSeq(gv, i + 1, Len(gv))]

\* schema.ParseGroupVersion: empty or "/" is the empty GroupVersion; no "/"
\* is a version of the core group; one "/" splits; more is an error.
ParseGroupVersion(gv) ==
    LET slashes == {i \in DOMAIN gv : gv[i] = "/"}
    IN  IF gv = << >> \/ gv = <<"/">>
          THEN [ok |-> TRUE, Group |-> << >>, Version |-> << >>]
        ELSE IF slashes = {}
          THEN [ok |-> TRUE, Group |-> << >>, Version |-> gv]
        ELSE IF Cardinality(slashes) = 1
          THEN LET i == CHOOSE j \in slashes : TRUE
               IN  [ok |-> TRUE, Group |-> SubSeq(gv, 1, i - 1),
                    Version |-> SubSeq(gv, i + 1, Len(gv))]
        ELSE [ok |-> FALSE, Group |-> << >>, Version |-> << >>]

\* The mutant of KindMatches: a comparison that ignores case.
Lower(s) == CASE s = "Ghost" -> "ghost"
              [] s = "Deployment" -> "deployment"
              [] s = "Widget" -> "widget"
              [] s = "Pod" -> "pod"
              [] OTHER -> s
KindMatchesFold(resourceKind, kind) == Lower(resourceKind) = Lower(kind)

\* resource.Kind == kind
KindMatches(resourceKind, kind) == resourceKind = kind

\* The scan of getCachedGVR: the first resource, in the order of the
\* response, whose Kind is kind, in a list whose GroupVersion parses.
\* Returns [found, gvr].
RECURSIVE ScanFrom(_, _, _, _)
ScanFrom(lists, kind, i, j) ==
    IF i > Len(lists) THEN [found |-> FALSE, gvr |-> NoGVR]
    ELSE LET gv == ParseGroupVersion(lists[i].GroupVersion)
             rs == lists[i].APIResources
         IN  IF ~gv.ok \/ j > Len(rs) THEN ScanFrom(lists, kind, i + 1, 1)
             ELSE IF KindMatches(rs[j].Kind, kind)
               THEN [found |-> TRUE,
                     gvr |-> [Group |-> gv.Group, Version |-> gv.Version,
                              Resource |-> rs[j].Name]]
             ELSE ScanFrom(lists, kind, i, j + 1)

ScanResourceLists(lists, kind) == ScanFrom(lists, kind, 1, 1)

\* The mutant of DiscoveryFatal: a partial-group failure is fatal too.
DiscoveryFatalAny(err) == err # ""

\* err != nil && !discovery.IsGroupDiscoveryFailedError(err)
DiscoveryFatal(err) == err # "" /\ err # "partial"

InitCache ==
    /\ apiResourceCache = << >>
    /\ cacheLock = [readers |-> {}, writer |-> {}]
    /\ discovery \in DOMAIN Answers
    /\ rpc = [w \in Workers |-> "idle"]
    /\ rkind = [w \in Workers |-> ""]
    /\ rgvr = [w \in Workers |-> NoGVR]
    /\ rerr = [w \in Workers |-> ""]
    /\ ncalls = 0
    /\ ndisc = [w \in Workers |-> 0]
    /\ nstore = [w \in Workers |-> 0]
    /\ startSeen = [w \in Workers |-> {}]
    /\ returnedOK = [k \in KindNames |-> {}]
    /\ answersUsed = [k \in KindNames |-> {}]
    /\ rans = [w \in Workers |-> 0]
    /\ callCount = [k \in KindNames |-> 0]
    /\ discCount = [k \in KindNames |-> 0]

\* A tool call enters getCachedGVR(kind).
Call(w, kind) ==
    /\ rpc[w] \in {"idle", "done"}
    /\ ncalls < MaxCalls
    /\ rpc' = [rpc EXCEPT ![w] = "rlock"]
    /\ rkind' = [rkind EXCEPT ![w] = kind]
    /\ rgvr' = [rgvr EXCEPT ![w] = NoGVR]
    /\ rerr' = [rerr EXCEPT ![w] = ""]
    /\ ncalls' = ncalls + 1
    /\ ndisc' = [ndisc EXCEPT ![w] = 0]
    /\ nstore' = [nstore EXCEPT ![w] = 0]
    /\ startSeen' = [startSeen EXCEPT ![w] = returnedOK[kind]]
    /\ rans' = [rans EXCEPT ![w] = 0]
    /\ callCount' = [callCount EXCEPT ![kind] = @ + 1]
    /\ UNCHANGED <<apiResourceCache, cacheLock, discovery, returnedOK, answersUsed,
                   discCount>>
    /\ UNCHANGED outsideCache

\* c.cacheLock.RLock(): waits while a writer holds the lock.
RLock(w) ==
    /\ rpc[w] = "rlock"
    /\ cacheLock.writer = {}
    /\ cacheLock' = [cacheLock EXCEPT !.readers = @ \cup {w}]
    /\ rpc' = [rpc EXCEPT ![w] = "read"]
    /\ UNCHANGED <<apiResourceCache, discovery, rkind, rgvr, rerr, ncalls, ndisc,
                   nstore, startSeen, returnedOK, answersUsed, rans, callCount,
                   discCount>>
    /\ UNCHANGED outsideCache

\* Finishing a call records what it returned.
Returned(w, gvr, err) ==
    /\ rgvr' = [rgvr EXCEPT ![w] = gvr]
    /\ rerr' = [rerr EXCEPT ![w] = err]
    /\ rpc' = [rpc EXCEPT ![w] = "done"]
    /\ returnedOK' = IF err = ""
                       THEN [returnedOK EXCEPT ![rkind[w]] = @ \cup {gvr}]
                       ELSE returnedOK

\* The mutant of RUnlock: the shared lock is kept.
RUnlockKept(lock, w) == lock

\* c.cacheLock.RUnlock()
RUnlock(lock, w) == [lock EXCEPT !.readers = @ \ {w}]

\* if gvr, exists := c.apiResourceCache[kind]; exists { RUnlock; return gvr }
\* RUnlock
CacheLookup(w) ==
    /\ rpc[w] = "read"
    /\ cacheLock' = RUnlock(cacheLock, w)
    /\ IF rkind[w] \in DOMAIN apiResourceCache
         THEN Returned(w, apiResourceCache[rkind[w]], "")
         ELSE /\ rpc' = [rpc EXCEPT ![w] = "discover"]
              /\ UNCHANGED <<rgvr, rerr, returnedOK>>
    /\ UNCHANGED <<apiResourceCache, discovery, rkind, ncalls, ndisc, nstore,
                   startSeen, answersUsed, rans, callCount, discCount>>
    /\ UNCHANGED outsideCache

\* ServerPreferredResources(), the error check and the scan: what the scan
\* found is kept in rgvr until the exclusive lock is taken.
Discover(w) ==
    /\ rpc[w] = "discover"
    /\ ndisc' = [ndisc EXCEPT ![w] = @ + 1]
    /\ answersUsed' = [answersUsed EXCEPT ![rkind[w]] = @ \cup {discovery}]
    /\ rans' = [rans EXCEPT ![w] = discovery]
    /\ discCount' = [discCount EXCEPT ![rkind[w]] = @ + 1]
    /\ LET ans == Answers[discovery]
           hit == ScanResourceLists(ans.lists, rkind[w])
       IN  IF DiscoveryFatal(ans.err)
             THEN Returned(w, NoGVR, "discovery")
           ELSE IF hit.found
             THEN /\ rgvr' = [rgvr EXCEPT ![w] = hit.gvr]
                  /\ rpc' = [rpc EXCEPT ![w] = "lock"]
                  /\ UNCHANGED <<rerr, returnedOK>>
           ELSE Returned(w, NoGVR, "notfound")
    /\ UNCHANGED <<apiResourceCache, cacheLock, discovery, rkind, ncalls, nstore,
                   startSeen, callCount>>
    /\ UNCHANGED outsideCache

\* c.cacheLock.Lock(): waits while anyone holds the lock.
Lock(w) ==
    /\ rpc[w] = "lock"
    /\ cacheLock.writer = {} /\ cacheLock.readers = {}
    /\ cacheLock' = [cacheLock EXCEPT !.writer = {w}]
    /\ rpc' = [rpc EXCEPT ![w] = "store"]
    /\ UNCHANGED <<apiResourceCache, discovery, rkind, rgvr, rerr, ncalls, ndisc,
                   nstore, startSeen, returnedOK, answersUsed, rans, callCount,
                   discCount>>
    /\ UNCHANGED outsideCache

\* The mutant of CacheStore: the write keeps an entry that is already there.
CacheStoreKeep(cache, kind, gvr) ==
    IF kind \in DOMAIN cache THEN cache
    ELSE [k \in DOMAIN cache \cup {kind} |-> IF k = kind THEN gvr ELSE cache[k]]

\* The mutant of CacheStore: the map holds the latest entry only.
CacheStoreLatestOnly(cache, kind, gvr) == [k \in {kind} |-> gvr]

\* The mutant of CacheStore: the entry is keyed by the resource name.
CacheStoreByResource(cache, kind, gvr) ==
    [k \in DOMAIN cache \cup {gvr.Resource} |->
        IF k = gvr.Resource THEN gvr ELSE cache[k]]

\* c.apiResourceCache[kind] = gvr
CacheStore(cache, kind, gvr) ==
    [k \in DOMAIN cache \cup {kind} |-> IF k = kind THEN gvr ELSE cache[k]]

\* The mutant of Unlock: the exclusive lock is kept.
UnlockKept(lock) == lock

\* c.cacheLock.Unlock()
Unlock(lock) == [lock EXCEPT !.writer = {}]

\* c.apiResourceCache[kind] = gvr; Unlock; return gvr
Store(w) ==
    /\ rpc[w] = "store"
    /\ apiResourceCache' = CacheStore(apiResourceCache, rkind[w], rgvr[w])
    /\ nstore' = [nstore EXCEPT ![w] = @ + 1]
    /\ cacheLock' = Unlock(cacheLock)
    /\ Returned(w, rgvr[w], "")
    /\ UNCHANGED <<discovery, rkind, ncalls, ndisc, startSeen, answersUsed, rans,
                   callCount, discCount>>
    /\ UNCHANGED outsideCache

\* The cluster's discovery answer changes (a CRD is installed, a preferred
\* version is redefined, an aggregated API goes down).
ClusterChange ==
    /\ \E a \in DOMAIN Answers : a # discovery /\ discovery' = a
    /\ UNCHANGED <<apiResourceCache, cacheLock, rpc, rkind, rgvr, rerr, ncalls,
                   ndisc, nstore, startSeen, returnedOK, answersUsed, rans,
                   callCount, discCount>>
    /\ UNCHANGED outsideCache

NextCache ==
    \/ \E w \in Workers, k \in KindNames : Call(w, k)
    \/ \E w \in Workers : RLock(w)
    \/ \E w \in Workers : CacheLookup(w)
    \/ \E w \in Workers : Discover(w)
    \/ \E w \in Workers : Lock(w)
    \/ \E w \in Workers : Store(w)
    \/ ClusterChange


\* -------------------------------------------------------- createOrUpdate

Formats == {"json", "yaml"}
NamespaceArgs == {"", "default", "prod"}
KindArgs == {"", "Deployment", "Ghost"}
Fields == {"a", "b"}

\* A manifest text. syntax is "object" (a mapping), "scalar" (well-formed
\* text that is not a mapping) or "broken" (not well-formed).
Text(syntax, kind, name, namespace, data) ==
    [syntax |-> syntax, kind |-> kind, name |-> name, namespace |-> namespace,
     data |-> data]

Manifests ==
    { Text("object", "Deployment", "web", "", [f \in {"a"} |-> 1]),
      Text("object", "Deployment", "web", "prod", [f \in {"a"} |-> 2]),
      Text("object", "", "web", "", [f \in {"b"} |-> 1]),
      Text("object", "Deployment", "", "", [f \in {"a"} |-> 1]),
      Text("scalar", "", "", "", << >>),
      Text("broken", "", "", "", << >>) }

NoDoc == [kind |-> "", name |-> "", namespace |-> "", data |-> << >>, generation |-> 0]

\* yaml.YAMLToJSON: fails on text that is not well-formed YAML.
YAMLToJSON(text) == [ok |-> text.syntax # "broken", json |-> text]

\* The mutant of Unmarshal: text that is no JSON object gives an empty one.
UnmarshalLenient(text) ==
    [ok |-> TRUE,
     obj |-> IF text.syntax = "object"
               THEN [kind |-> text.kind, name |-> text.name,
                     namespace |-> text.namespace, data |-> text.data,
                     generation |-> 0]
               ELSE NoDoc]

\* json.Unmarshal(..., &obj.Object): fails unless the text is well-formed
\* and a JSON object; obj holds the fields of the text.
Unmarshal(text) ==
    IF text.syntax = "object"
      THEN [ok |-> TRUE,
            obj |-> [kind |-> text.kind, name |-> text.name,
                     namespace |-> text.namespace, data |-> text.data,
                     generation |-> 0]]
      ELSE [ok |-> FALSE, obj |-> NoDoc]

\* The mutant of SetNamespace: a namespace the manifest has is kept.
SetNamespaceIfUnset(obj, namespace) ==
    IF obj.namespace = "" THEN [obj EXCEPT !.namespace = namespace] ELSE obj

\* obj.SetNamespace(namespace)
SetNamespace(obj, namespace) == [obj EXCEPT !.namespace = namespace]

\* The mutant of EffectiveKind: the JSON variant infers the kind as well.
EffectiveKindInferred(format, kind, obj) == IF kind = "" THEN obj.kind ELSE kind

\* The kind getCachedGVR is called with: the JSON variant passes its kind
\* argument; the YAML variant falls back on obj.GetKind().
EffectiveKind(format, kind, obj) ==
    IF format = "yaml" /\ kind = "" THEN obj.kind ELSE kind

\* getCachedGVR as one step: [err, gvr, cache, discovered].
GetCachedGVR(cache, ans, kind) ==
    IF kind \in DOMAIN cache
      THEN [err |-> "", gvr |-> cache[kind], cache |-> cache, discovered |-> FALSE]
    ELSE IF DiscoveryFatal(ans.err)
      THEN [err |-> "discovery", gvr |-> NoGVR, cache |-> cache, discovered |-> TRUE]
    ELSE LET hit == ScanResourceLists(ans.lists, kind)
         IN  IF hit.found
               THEN [err |-> "", gvr |-> hit.gvr,
                     cache |-> CacheStore(cache, kind, hit.gvr), discovered |-> TRUE]
               ELSE [err |-> "notfound", gvr |-> NoGVR, cache |-> cache,
                     discovered |-> TRUE]

MapPut(map, k, v) == [x \in DOMAIN map \cup {k} |-> IF x = k THEN v ELSE map[x]]

\* JSON merge patch of the stored data with the data of the patch body.
MergeData(old, new) ==
    [f \in DOMAIN old \cup DOMAIN new |-> IF f \in DOMAIN new THEN new[f] ELSE old[f]]

\* The API server's answer to a merge patch of key with body: not-found
\* when the object does not exist, invalid when the body names another
\* namespace than the request, else the merged document is stored.
ServerPatch(objs, key, body) ==
    IF key \notin DOMAIN objs THEN [out |-> "notfound", objs |-> objs, doc |-> NoDoc]
    ELSE IF body.namespace # "" /\ body.namespace # key[2]
      THEN [out |-> "invalid", objs |-> objs, doc |-> NoDoc]
    ELSE LET old == objs[key]
             data == MergeData(old.data, body.data)
             doc == [old EXCEPT !.data = data,
                                !.kind = IF body.kind # "" THEN body.kind ELSE @,
                                !.generation = IF data # old.data THEN @ + 1 ELSE @]
         IN  [out |-> "ok", objs |-> MapPut(objs, key, doc), doc |-> doc]

\* The API server's answer to a create of obj at key: invalid at cluster
\* scope or without a kind, not-found when the namespace does not exist,
\* exists when the object does, else the document is stored.
ServerCreate(objs, nss, key, obj) ==
    IF key[2] = "" \/ obj.kind = "" THEN [out |-> "invalid", objs |-> objs, doc |-> NoDoc]
    ELSE IF key[2] \notin nss THEN [out |-> "notfound", objs |-> objs, doc |-> NoDoc]
    ELSE IF key \in DOMAIN objs THEN [out |-> "exists", objs |-> objs, doc |-> NoDoc]
    ELSE LET doc == [obj EXCEPT !.generation = 1]
         IN  [out |-> "ok", objs |-> MapPut(objs, key, doc), doc |-> doc]

\* The mutant of IsNotFound: not-found is treated like any other error.
IsNotFoundNever(out) == FALSE

\* The mutant of IsNotFound: any failure counts as not-found.
IsNotFoundAnyError(out) == out # "ok"

\* The mutant of IsNotFound: a failed call counts as not-found too.
IsNotFoundOrFault(out) == out \in {"notfound", "fault"}

\* errors.IsNotFound(err)
IsNotFound(out) == out = "notfound"

NoArgs == [format |-> "", namespace |-> "", manifest |-> Text("broken", "", "", "", << >>),
           kind |-> ""]
NoKey == <<"", "", "">>
NoPrev == [args |-> NoArgs, err |-> "none", key |-> NoKey, stored |-> NoDoc]

\* The object the patch and the create address.
Target == <<agvr.Resource, aobj.namespace, aobj.name>>

StoredAt(objs, key) == IF key \in DOMAIN objs THEN objs[key] ELSE NoDoc

IdleApply ==
    /\ namespaces = {"default"}
    /\ objects = << >>
    /\ apc = "idle"
    /\ aargs = NoArgs
    /\ aobj = NoDoc
    /\ agvr = NoGVR
    /\ ahist = << >>
    /\ aerr = ""
    /\ ares = NoDoc
    /\ aprev = NoPrev
    /\ acalls = 0
    /\ akind = "none"
    /\ astart = [objects |-> objects, namespaces |-> namespaces]

IdleCache ==
    /\ apiResourceCache = << >>
    /\ cacheLock = [readers |-> {}, writer |-> {}]
    /\ discovery = 1
    /\ rpc = [w \in Workers |-> "idle"]
    /\ rkind = [w \in Workers |-> ""]
    /\ rgvr = [w \in Workers |-> NoGVR]
    /\ rerr = [w \in Workers |-> ""]
    /\ ncalls = 0
    /\ ndisc = [w \in Workers |-> 0]
    /\ nstore = [w \in Workers |-> 0]
    /\ startSeen = [w \in Workers |-> {}]
    /\ returnedOK = [k \in KindNames |-> {}]
    /\ answersUsed = [k \in KindNames |-> {}]
    /\ rans = [w \in Workers |-> 0]
    /\ callCount = [k \in KindNames |-> 0]
    /\ discCount = [k \in KindNames |-> 0]

StartApply ==
    /\ namespaces \in {{"default"}, {"default", "prod"}}
    /\ objects \in
         { << >>,
           [k \in {<<"deployments", "default", "web">>} |->
               [kind |-> "Deployment", name |-> "web", namespace |-> "default",
                data |-> [f \in Fields |-> 2], generation |-> 1]] }
    /\ apc = "idle"
    /\ aargs = NoArgs
    /\ aobj = NoDoc
    /\ agvr = NoGVR
    /\ ahist = << >>
    /\ aerr = ""
    /\ ares = NoDoc
    /\ aprev = NoPrev
    /\ acalls = 0
    /\ akind = "none"
    /\ astart = [objects |-> objects, namespaces |-> namespaces]

\* return nil, err / return result.UnstructuredContent(), nil
Finish(err, doc) ==
    /\ apc' = "done"
    /\ aerr' = err
    /\ ares' = doc

\* if obj.GetName() == "" { return error }: the step before the patch.
NameCheck(obj) ==
    IF obj.name = ""
      THEN Finish("name-required", NoDoc)
      ELSE apc' = "patch" /\ UNCHANGED <<aerr, ares>>

\* A tool call enters CreateOrUpdateResourceJSON / YAML: the manifest is
\* parsed and, in the YAML variant, the kind is inferred.
Begin(format, namespace, manifest, kind) ==
    /\ apc \in {"idle", "done"}
    /\ acalls < MaxApplyCalls
    /\ acalls' = acalls + 1
    /\ akind' = "none"
    /\ astart' = [objects |-> objects, namespaces |-> namespaces]
    /\ aargs' = [format |-> format, namespace |-> namespace, manifest |-> manifest,
                 kind |-> kind]
    /\ aprev' = IF apc = "done"
                  THEN [args |-> aargs, err |-> aerr, key |-> Target,
                        stored |-> StoredAt(objects, Target)]
                  ELSE NoPrev
    /\ ahist' = << >>
    /\ agvr' = NoGVR
    /\ LET conv == IF format = "yaml" THEN YAMLToJSON(manifest)
                   ELSE [ok |-> TRUE, json |-> manifest]
           parsed == Unmarshal(conv.json)
       IN  IF ~conv.ok
             THEN aobj' = NoDoc /\ Finish("parse", NoDoc)
           ELSE IF ~parsed.ok
             THEN aobj' = NoDoc /\ Finish("parse", NoDoc)
           ELSE IF format = "yaml" /\ EffectiveKind(format, kind, parsed.obj) = ""
             THEN aobj' = parsed.obj /\ Finish("kind-required", NoDoc)
           ELSE /\ aobj' = parsed.obj
                /\ apc' = "resolve"
                /\ UNCHANGED <<aerr, ares>>
    /\ UNCHANGED <<namespaces, objects, apiResourceCache, discovery, cacheWorkerVars,
                   outsideApply>>

\* gvr, err := c.getCachedGVR(kind); the YAML variant then applies the
\* namespace override and checks the name.
Resolve ==
    /\ apc = "resolve"
    /\ LET r == GetCachedGVR(apiResourceCache, Answers[discovery],
                             EffectiveKind(aargs.format, aargs.kind, aobj))
           obj == IF aargs.namespace # "" THEN SetNamespace(aobj, aargs.namespace)
                  ELSE aobj
       IN  /\ apiResourceCache' = r.cache
           /\ agvr' = r.gvr
           /\ akind' = EffectiveKind(aargs.format, aargs.kind, aobj)
           /\ ahist' = IF r.discovered
                         THEN Append(ahist, [call |-> "discovery", out |-> r.err,
                                             absent |-> FALSE])
                         ELSE ahist
           /\ IF r.err # ""
                THEN Finish(r.err, NoDoc) /\ UNCHANGED aobj
              ELSE IF aargs.format = "json"
                THEN apc' = "nsGet" /\ UNCHANGED <<aobj, aerr, ares>>
              ELSE aobj' = obj /\ NameCheck(obj)
    /\ UNCHANGED <<namespaces, objects, aargs, aprev, acalls, astart, discovery,
                   cacheWorkerVars>>
    /\ UNCHANGED outsideApply

\* The mutant of NamespaceFailed: the namespace check is best effort.
NamespaceFailedIgnored(out) == FALSE

\* if err != nil { return nil, "failed to retrieve namespace resource" }
NamespaceFailed(out) == out # "ok"

\* c.clientset.CoreV1().Namespaces().Get(ctx, namespace, ...): an empty
\* name is refused, a fault is any error but not-found.
NsGet ==
    /\ apc = "nsGet"
    /\ \E fault \in BOOLEAN :
         LET out == IF aargs.namespace = "" THEN "invalid"
                    ELSE IF fault THEN "fault"
                    ELSE IF aargs.namespace \in namespaces THEN "ok"
                    ELSE "notfound"
             obj == SetNamespace(aobj, aargs.namespace)
         IN  /\ ahist' = Append(ahist, [call |-> "nsGet", out |-> out, absent |-> FALSE])
             /\ IF IsNotFound(out)
                  THEN apc' = "nsCreate" /\ UNCHANGED <<aobj, aerr, ares>>
                ELSE IF NamespaceFailed(out)
                  THEN Finish("namespace", NoDoc) /\ UNCHANGED aobj
                ELSE aobj' = obj /\ NameCheck(obj)
    /\ UNCHANGED <<namespaces, objects, aargs, agvr, aprev, acalls, akind, astart,
                   apiResourceCache, discovery, cacheWorkerVars>>
    /\ UNCHANGED outsideApply

\* c.clientset.CoreV1().Namespaces().Create(...), after a not-found lookup.
NsCreate ==
    /\ apc = "nsCreate"
    /\ \E fault \in BOOLEAN :
         LET out == IF fault THEN "fault"
                    ELSE IF aargs.namespace \in namespaces THEN "exists"
                    ELSE "ok"
             obj == SetNamespace(aobj, aargs.namespace)
         IN  /\ ahist' = Append(ahist, [call |-> "nsCreate", out |-> out, absent |-> FALSE])
             /\ namespaces' = IF out = "ok" THEN namespaces \cup {aargs.namespace}
                              ELSE namespaces
             /\ IF NamespaceFailed(out)
                  THEN Finish("namespace", NoDoc) /\ UNCHANGED aobj
                  ELSE aobj' = obj /\ NameCheck(obj)
    /\ UNCHANGED <<objects, aargs, agvr, aprev, acalls, akind, astart,
                   apiResourceCache, discovery,
                   cacheWorkerVars>>
    /\ UNCHANGED outsideApply

\* resource.Patch(ctx, obj.GetName(), types.MergePatchType, <the manifest as given>)
Patch ==
    /\ apc = "patch"
    /\ \E fault \in BOOLEAN :
         LET body == Unmarshal(aargs.manifest).obj
             r == IF fault THEN [out |-> "fault", objs |-> objects, doc |-> NoDoc]
                  ELSE ServerPatch(objects, Target, body)
         IN  /\ ahist' = Append(ahist, [call |-> "patch", out |-> r.out,
                                        absent |-> Target \notin DOMAIN objects,
                                        key |-> Target])
             /\ objects' = r.objs
             /\ IF IsNotFound(r.out)
                  THEN apc' = "create" /\ UNCHANGED <<aerr, ares>>
                ELSE IF r.out # "ok"
                  THEN Finish("apply", NoDoc)
                ELSE Finish("", r.doc)
    /\ UNCHANGED <<namespaces, aargs, aobj, agvr, aprev, acalls, akind, astart,
                   apiResourceCache,
                   discovery, cacheWorkerVars>>
    /\ UNCHANGED outsideApply

\* result, err = resource.Create(ctx, obj, ...), after a not-found patch.
Create ==
    /\ apc = "create"
    /\ \E fault \in BOOLEAN :
         LET r == IF fault THEN [out |-> "fault", objs |-> objects, doc |-> NoDoc]
                  ELSE ServerCreate(objects, namespaces, Target, aobj)
         IN  /\ ahist' = Append(ahist, [call |-> "create", out |-> r.out,
                                        absent |-> Target \notin DOMAIN objects,
                                        key |-> Target])
             /\ objects' = r.objs
             /\ IF r.out # "ok" THEN Finish("apply", NoDoc) ELSE Finish("", r.doc)
    /\ UNCHANGED <<namespaces, aargs, aobj, agvr, aprev, acalls, akind, astart,
                   apiResourceCache,
                   discovery, cacheWorkerVars>>
    /\ UNCHANGED outsideApply

NextApply ==
    \/ \E f \in Formats, n \in NamespaceArgs, m \in Manifests, k \in KindArgs :
          Begin(f, n, m, k)
    \/ Resolve
    \/ NsGet
    \/ NsCreate
    \/ Patch
    \/ Create


\* ------------------------------------------- connection resolver and main

\* A path is the sequence of its segments; the empty path is << >>.
ArgPath == <<"arg", "config">>
EnvPath == <<"env", "config">>
HomeDir == <<"home", "u">>
CAPath == <<"ca.crt">>

\* filepath.Join(home, ".kube", "config")
JoinKubeConfig(home) == home \o <<".kube", "config">>

\* What the resolver can find: env.data is KUBECONFIG_DATA ("" unset,
\* "valid", "malformed" when it does not load, "nocontext" when it loads
\* but yields no REST config); validFiles are the paths that hold a
\* loadable kubeconfig.
Envs ==
    [data : {"", "valid", "malformed", "nocontext"},
     server : {"", "https://api"},
     token : {"", "tok"},
     insecure : {"", "true"},
     caCert : {"", "pem"},
     caCertPath : {<< >>, CAPath},
     caReadable : BOOLEAN,
     tokenFile : BOOLEAN,
     inClusterOK : BOOLEAN,
     kubeconfigEnv : {<< >>, EnvPath},
     home : {<< >>, HomeDir},
     validFiles : SUBSET {ArgPath, EnvPath, JoinKubeConfig(HomeDir)}]

NoConfig == [source |-> "", host |-> "", token |-> "", ca |-> "", insecure |-> FALSE,
             path |-> << >>]

Failed(source, reads) ==
    [err |-> source, source |-> source, config |-> NoConfig, reads |-> reads]

\* Method 1: clientcmd.Load of KUBECONFIG_DATA, then ClientConfig().
FromKubeconfigData(e, reads) ==
    IF e.data = "valid"
      THEN [err |-> "", source |-> "data",
            config |-> [NoConfig EXCEPT !.source = "data", !.host = "from-data"],
            reads |-> reads]
      ELSE Failed("data", reads)

\* Method 2: KUBERNETES_SERVER with KUBERNETES_TOKEN, KUBERNETES_INSECURE
\* and the CA certificate, inline or read from KUBERNETES_CA_CERT_PATH.
FromServerAndToken(e, reads) ==
    LET r1 == Append(reads, "KUBERNETES_TOKEN")
        r2 == r1 \o <<"KUBERNETES_INSECURE", "KUBERNETES_CA_CERT">>
        r3 == Append(r2, "KUBERNETES_CA_CERT_PATH")
        cfg == [NoConfig EXCEPT !.source = "server", !.host = e.server,
                                !.token = e.token, !.insecure = (e.insecure = "true")]
    IN  IF e.token = "" THEN Failed("server", r1)
        ELSE IF e.caCert # ""
          THEN [err |-> "", source |-> "server",
                config |-> [cfg EXCEPT !.ca = e.caCert], reads |-> r2]
        ELSE IF e.caCertPath # << >>
          THEN IF e.caReadable
                 THEN [err |-> "", source |-> "server",
                       config |-> [cfg EXCEPT !.ca = "from-file"],
                       reads |-> Append(r3, "ca-file")]
                 ELSE Failed("server", Append(r3, "ca-file"))
        ELSE [err |-> "", source |-> "server", config |-> cfg, reads |-> r3]

\* Method 3: rest.InClusterConfig(), once the token file is there.
FromInCluster(e, reads) ==
    IF e.inClusterOK
      THEN [err |-> "", source |-> "incluster",
            config |-> [NoConfig EXCEPT !.source = "incluster",
                                        !.host = "from-service-env"],
            reads |-> Append(reads, "in-cluster")]
      ELSE Failed("incluster", Append(reads, "in-cluster"))

\* The mutant of KubeconfigPath: the KUBECONFIG variable beats the argument.
KubeconfigPathEnvFirst(e, kubeconfigPath) ==
    IF e.kubeconfigEnv # << >>
      THEN [path |-> e.kubeconfigEnv, reads |-> <<"KUBECONFIG">>]
    ELSE IF kubeconfigPath # << >>
      THEN [path |-> kubeconfigPath, reads |-> <<"KUBECONFIG">>]
    ELSE IF e.home # << >>
      THEN [path |-> JoinKubeConfig(e.home), reads |-> <<"KUBECONFIG", "home">>]
    ELSE [path |-> << >>, reads |-> <<"KUBECONFIG", "home">>]

\* Method 4, the path: the argument, else KUBECONFIG, else ~/.kube/config.
KubeconfigPath(e, kubeconfigPath) ==
    IF kubeconfigPath # << >>
      THEN [path |-> kubeconfigPath, reads |-> << >>]
    ELSE IF e.kubeconfigEnv # << >>
      THEN [path |-> e.kubeconfigEnv, reads |-> <<"KUBECONFIG">>]
    ELSE IF e.home # << >>
      THEN [path |-> JoinKubeConfig(e.home), reads |-> <<"KUBECONFIG", "home">>]
    ELSE [path |-> << >>, reads |-> <<"KUBECONFIG", "home">>]

\* Method 4: clientcmd.BuildConfigFromFlags("", kubeconfig).
FromKubeconfigFile(e, kubeconfigPath, reads) ==
    LET k == KubeconfigPath(e, kubeconfigPath)
        r == (reads \o k.reads) \o <<"kubeconfig-file">>
    IN  IF k.path \in e.validFiles
          THEN [err |-> "", source |-> "file",
                config |-> [NoConfig EXCEPT !.source = "file", !.host = "from-file",
                                            !.path = k.path],
                reads |-> r]
          ELSE [Failed("file", r) EXCEPT !.config.path = k.path]

\* The mutant of BuildKubernetesConfig: a source that fails is skipped.
BuildKubernetesConfigFallThrough(e, kubeconfigPath) ==
    LET m1 == FromKubeconfigData(e, <<"KUBECONFIG_DATA">>)
        m2 == FromServerAndToken(e, <<"KUBECONFIG_DATA", "KUBERNETES_SERVER">>)
        m3 == FromInCluster(e, <<"KUBECONFIG_DATA", "KUBERNETES_SERVER", "stat-token">>)
    IN  IF e.data # "" /\ m1.err = "" THEN m1
        ELSE IF e.server # "" /\ m2.err = "" THEN m2
        ELSE IF e.tokenFile /\ m3.err = "" THEN m3
        ELSE FromKubeconfigFile(e, kubeconfigPath,
                 <<"KUBECONFIG_DATA", "KUBERNETES_SERVER", "stat-token">>)

\* BuildKubernetesConfig(kubeconfigPath): [err, source, config, reads].
BuildKubernetesConfig(e, kubeconfigPath) ==
    IF e.data # ""
      THEN FromKubeconfigData(e, <<"KUBECONFIG_DATA">>)
    ELSE IF e.server # ""
      THEN FromServerAndToken(e, <<"KUBECONFIG_DATA", "KUBERNETES_SERVER">>)
    ELSE IF e.tokenFile
      THEN FromInCluster(e, <<"KUBECONFIG_DATA", "KUBERNETES_SERVER", "stat-token">>)
    ELSE FromKubeconfigFile(e, kubeconfigPath,
             <<"KUBECONFIG_DATA", "KUBERNETES_SERVER", "stat-token">>)

NoResult == [err |-> "none", source |-> "", config |-> NoConfig, reads |-> << >>]
NoClient == [restConfig |-> NoConfig, run |-> 0]
NoFlags == [readOnly |-> FALSE, noK8s |-> FALSE, noHelm |-> FALSE, mode |-> ""]

AnEnv == [data |-> "", server |-> "", token |-> "", insecure |-> "", caCert |-> "",
          caCertPath |-> << >>, caReadable |-> FALSE, tokenFile |-> FALSE,
          inClusterOK |-> FALSE, kubeconfigEnv |-> << >>, home |-> HomeDir,
          validFiles |-> {JoinKubeConfig(HomeDir)}]

IdleMain ==
    /\ env = AnEnv
    /\ kpath = << >>
    /\ built = NoResult
    /\ mpc = "idle"
    /\ flags = NoFlags
    /\ resolverLog = << >>
    /\ k8sClient = NoClient
    /\ helmClient = NoClient
    /\ tools = {}

\* A call of BuildKubernetesConfig on its own, in any environment.
StartResolve ==
    /\ env \in Envs
    /\ kpath \in {<< >>, ArgPath}
    /\ built = NoResult
    /\ mpc = "idle"
    /\ flags = NoFlags
    /\ resolverLog = << >>
    /\ k8sClient = NoClient
    /\ helmClient = NoClient
    /\ tools = {}

ResolveConfig ==
    /\ built = NoResult
    /\ built' = BuildKubernetesConfig(env, kpath)
    /\ UNCHANGED <<env, kpath, mpc, flags, resolverLog, k8sClient, helmClient, tools>>
    /\ UNCHANGED outsideMain

NextResolve == ResolveConfig

\* The environments main is started in: those of Envs without a CA
\* certificate setting, with all or none of the kubeconfig files loadable.
MainEnvs ==
    [data : {"", "valid", "malformed", "nocontext"},
     server : {"", "https://api"},
     token : {"", "tok"},
     insecure : {""},
     caCert : {""},
     caCertPath : {<< >>},
     caReadable : {FALSE},
     tokenFile : BOOLEAN,
     inClusterOK : BOOLEAN,
     kubeconfigEnv : {<< >>, EnvPath},
     home : {<< >>, HomeDir},
     validFiles : {{}, {ArgPath, EnvPath, JoinKubeConfig(HomeDir)}}]

Modes == {"stdio", "sse", "streamable-http", "bogus"}

K8sReadTools == {"GetAPIResources", "ListResources", "GetResources",
                 "DescribeResources", "GetPodsLogs", "GetNodeMetrics",
                 "GetPodMetrics", "GetEvents", "GetIngresses"}
K8sWriteTools == {"CreateOrUpdateResourceJSON", "CreateOrUpdateResourceYAML",
                  "DeleteResource", "RolloutRestart"}
HelmReadTools == {"HelmList", "HelmGet", "HelmHistory", "HelmRepoList"}
HelmWriteTools == {"HelmInstall", "HelmUpgrade", "HelmUninstall", "HelmRollback",
                   "HelmRepoAdd"}

StartMain ==
    /\ env \in MainEnvs
    /\ kpath = << >>
    /\ built = NoResult
    /\ mpc = "flags"
    /\ flags = NoFlags
    /\ resolverLog = << >>
    /\ k8sClient = NoClient
    /\ helmClient = NoClient
    /\ tools = {}

\* The mutant of AfterFlags: the flag combination is not checked.
AfterFlagsUnchecked(noK8s, noHelm) == "k8sClient"

\* if noK8s && noHelm { ...; os.Exit(1) }
AfterFlags(noK8s, noHelm) == IF noK8s /\ noHelm THEN "exit1" ELSE "k8sClient"

\* flag.Parse() and the check of the flag combination: os.Exit(1) when both
\* tool categories are disabled.
ParseFlags ==
    /\ mpc = "flags"
    /\ \E ro \in BOOLEAN, nk \in BOOLEAN, nh \in BOOLEAN, m \in Modes :
          /\ flags' = [readOnly |-> ro, noK8s |-> nk, noHelm |-> nh, mode |-> m]
          /\ mpc' = AfterFlags(nk, nh)
    /\ UNCHANGED <<env, kpath, built, resolverLog, k8sClient, helmClient, tools>>
    /\ UNCHANGED outsideMain

\* The mutant of HelmRestConfig: the Helm wrapper is handed the descriptor
\* of the Kubernetes client.
HelmRestConfigShared(e, kubeconfig, log, client) ==
    [log |-> log, err |-> "", restConfig |-> client.restConfig, run |-> client.run]

\* helm.NewClient: restConfig, err := k8s.BuildKubernetesConfig(kubeconfig)
HelmRestConfig(e, kubeconfig, log, client) ==
    LET r == BuildKubernetesConfig(e, kubeconfig)
    IN  [log |-> Append(log, [path |-> kubeconfig, result |-> r, env |-> e]),
         err |-> r.err, restConfig |-> r.config, run |-> Len(log) + 1]

\* client, err := k8s.NewClient(""): NewClient runs BuildKubernetesConfig.
NewK8sClient ==
    /\ mpc = "k8sClient"
    /\ LET r == BuildKubernetesConfig(env, << >>)
       IN  /\ resolverLog' = Append(resolverLog, [path |-> << >>, result |-> r, env |-> env])
           /\ IF r.err # ""
                THEN mpc' = "exit" /\ UNCHANGED k8sClient
                ELSE /\ mpc' = "helmClient"
                     /\ k8sClient' = [restConfig |-> r.config,
                                      run |-> Len(resolverLog) + 1]
    /\ UNCHANGED <<env, kpath, built, flags, helmClient, tools>>
    /\ UNCHANGED outsideMain

\* The files the resolver looks at belong to the host, not to the process:
\* between the two constructors the token file and the kubeconfig files may
\* appear, disappear or change.  One change stands for any number of them.
FilesChange ==
    /\ mpc = "helmClient"
    /\ env = resolverLog[1].env
    /\ \E e \in MainEnvs :
          /\ e # env
          /\ e.data = env.data /\ e.server = env.server /\ e.token = env.token
          /\ e.kubeconfigEnv = env.kubeconfigEnv /\ e.home = env.home
          /\ env' = e
    /\ UNCHANGED <<kpath, built, mpc, flags, resolverLog, k8sClient, helmClient, tools>>
    /\ UNCHANGED outsideMain

\* helmClient, err := helm.NewClient("")
NewHelmClient ==
    /\ mpc = "helmClient"
    /\ LET h == HelmRestConfig(env, << >>, resolverLog, k8sClient)
       IN  /\ resolverLog' = h.log
           /\ IF h.err # ""
                THEN mpc' = "exit" /\ UNCHANGED helmClient
                ELSE /\ mpc' = "register"
                     /\ helmClient' = [restConfig |-> h.restConfig, run |-> h.run]
    /\ UNCHANGED <<env, kpath, built, flags, k8sClient, tools>>
    /\ UNCHANGED outsideMain

\* The s.AddTool calls main makes for the flags.
AddedFor(f) ==
    (IF f.noK8s THEN {}
     ELSE K8sReadTools \cup (IF f.readOnly THEN {} ELSE K8sWriteTools))
    \cup
    (IF f.noHelm THEN {}
     ELSE HelmReadTools \cup (IF f.readOnly THEN {} ELSE HelmWriteTools))

\* The name each constructor of package tools gives its tool; the Helm
\* constructors name the tool after themselves, with a small h.
ToolName(constructor) ==
    CASE constructor = "GetAPIResources" -> "getAPIResources"
      [] constructor = "ListResources" -> "listResources"
      [] constructor = "GetResources" -> "getResource"
      [] constructor = "DescribeResources" -> "describeResource"
      [] constructor = "GetPodsLogs" -> "getPodsLogs"
      [] constructor = "GetNodeMetrics" -> "getNodeMetrics"
      [] constructor = "GetPodMetrics" -> "getPodMetrics"
      [] constructor = "GetEvents" -> "getEvents"
      [] constructor = "GetIngresses" -> "getIngresses"
      [] constructor = "CreateOrUpdateResourceJSON" -> "createResource"
      [] constructor = "CreateOrUpdateResourceYAML" -> "createResourceYAML"
      [] constructor = "DeleteResource" -> "deleteResource"
      [] constructor = "RolloutRestart" -> "rolloutRestart"
      [] constructor = "HelmInstall" -> "helmInstall"
      [] constructor = "HelmUpgrade" -> "helmUpgrade"
      [] constructor = "HelmUninstall" -> "helmUninstall"
      [] constructor = "HelmList" -> "helmList"
      [] constructor = "HelmGet" -> "helmGet"
      [] constructor = "HelmHistory" -> "helmHistory"
      [] constructor = "HelmRollback" -> "helmRollback"
      [] constructor = "HelmRepoAdd" -> "helmRepoAdd"
      [] constructor = "HelmRepoList" -> "helmRepoList"

\* The mutant of ToolsFor: the read-only flag is not looked at.
ToolsForIgnoringReadOnly(f) ==
    {ToolName(c) : c \in AddedFor([f EXCEPT !.readOnly = FALSE])}

\* The names of the tools the server ends up with.
ToolsFor(f) == {ToolName(c) : c \in AddedFor(f)}

RegisterTools ==
    /\ mpc = "register"
    /\ tools' = ToolsFor(flags)
    /\ mpc' = "serve"
    /\ UNCHANGED <<env, kpath, built, flags, resolverLog, k8sClient, helmClient>>
    /\ UNCHANGED outsideMain

\* switch mode: the transport starts, or main returns on an unknown mode.
Serve ==
    /\ mpc = "serve"
    /\ mpc' = IF flags.mode \in {"stdio", "sse", "streamable-http"}
                THEN "serving" ELSE "exit"
    /\ UNCHANGED <<env, kpath, built, flags, resolverLog, k8sClient, helmClient, tools>>
    /\ UNCHANGED outsideMain

NextMain ==
    \/ ParseFlags
    \/ NewK8sClient
    \/ FilesChange
    \/ NewHelmClient
    \/ RegisterTools
    \/ Serve
vars == <<cacheVars, applyVars, mainVars, logVars, restartVars, accessVars, ingressVars, pairVars>>


\* ----------------------------------------------------------- GetPodsLogs

ContainerNames == {"A", "B", "C", "D"}

\* The sequences of n different names of a set.
RECURSIVE Arrangements(_, _)
Arrangements(S, n) ==
    IF n = 0 THEN {<< >>}
    ELSE UNION {{<<c>> \o t : t \in Arrangements(S \ {c}, n - 1)} : c \in S}

\* The last lines of a container's log (TailLines = 100), as the cluster
\* holds them; a container may have written nothing.
LogLines(c) ==
    CASE c = "A" -> <<"a1", "a2">>
      [] c = "B" -> << >>
      [] c = "C" -> <<"c1">>
      [] OTHER -> <<"d1">>

\* How asking for a container's log can end: the stream opens and is copied
\* to its end, req.Stream fails, or the stream opens and io.Copy fails.
Outcomes == {"ok", "streamfail", "copyfail"}

\* fmt.Sprintf("\n--- Logs for container %s ---\n", container.Name)
Header(c) == <<"\n--- Logs for container ", c, " ---\n">>
\* fmt.Sprintf("\n--- Error getting logs for container %s: %v ---\n", ...)
StreamErrorMarker(c) == <<"\n--- Error getting logs for container ", c, ": ", "stream-err", " ---\n">>
\* fmt.Sprintf("Error reading logs: %v\n", err)
CopyErrorMarker == <<"Error reading logs: ", "copy-err", "\n">>

\* The mutant of LoopBody: a stream that does not open ends the call.
LoopBodyAbort(c, outcome, sofar) ==
    IF outcome = "streamfail"
      THEN [next |-> "return", allLogs |-> << >>, err |-> "failed to get logs"]
    ELSE IF outcome = "copyfail"
      THEN [next |-> "loop", allLogs |-> (sofar \o Header(c)) \o CopyErrorMarker, err |-> ""]
    ELSE [next |-> "loop", allLogs |-> (sofar \o Header(c)) \o LogLines(c), err |-> ""]

\* One round of the range loop, for container c.
LoopBody(c, outcome, sofar) ==
    IF outcome = "streamfail"
      THEN [next |-> "loop", allLogs |-> sofar \o StreamErrorMarker(c), err |-> ""]
    ELSE IF outcome = "copyfail"
      THEN [next |-> "loop", allLogs |-> (sofar \o Header(c)) \o CopyErrorMarker, err |-> ""]
    ELSE [next |-> "loop", allLogs |-> (sofar \o Header(c)) \o LogLines(c), err |-> ""]

NoLogs == [logs |-> << >>, err |-> "none"]

IdleLogs ==
    /\ podExists = FALSE
    /\ podContainers = << >>
    /\ containerName = ""
    /\ lpc = "idle"
    /\ idx = 0
    /\ allLogs = << >>
    /\ visits = << >>
    /\ podGets = 0
    /\ lres = NoLogs

\* A call GetPodsLogs(ctx, namespace, containerName, podName) against a pod
\* of up to MaxContainers containers, or against no pod.
StartLogs ==
    /\ podExists \in BOOLEAN
    /\ podContainers \in UNION {Arrangements(ContainerNames, n) : n \in 0..MaxContainers}
    /\ podExists = FALSE => podContainers = << >>
    /\ containerName \in {"", "A", "Z"}
    /\ lpc = "start"
    /\ idx = 0
    /\ allLogs = << >>
    /\ visits = << >>
    /\ podGets = 0
    /\ lres = NoLogs

DeclaredNames == {podContainers[i] : i \in 1..Len(podContainers)}

\* containerName given: the one stream, and its content or the error.
StreamNamed ==
    /\ lpc = "start"
    /\ containerName # ""
    /\ \E outcome \in Outcomes :
          /\ (~podExists \/ containerName \notin DeclaredNames) => outcome = "streamfail"
          /\ visits' = Append(visits, [container |-> containerName, outcome |-> outcome])
          /\ lres' = CASE outcome = "streamfail" ->
                            [logs |-> << >>, err |-> "failed to get logs for container"]
                       [] outcome = "copyfail" ->
                            [logs |-> << >>, err |-> "failed to read logs"]
                       [] OTHER -> [logs |-> LogLines(containerName), err |-> ""]
    /\ lpc' = "done"
    /\ UNCHANGED <<podExists, podContainers, containerName, idx, allLogs, podGets>>
    /\ UNCHANGED outsideLogs

\* The mutant of AfterGetPod: every pod goes through the range loop.
AfterGetPodAlwaysLoop(containers) == "loop"

\* if len(pod.Spec.Containers) == 1
AfterGetPod(containers) == IF Len(containers) = 1 THEN "single" ELSE "loop"

\* No containerName: Pods(namespace).Get, then the branch on the number of
\* containers.
GetPod ==
    /\ lpc = "start"
    /\ containerName = ""
    /\ IF ~podExists
         THEN /\ lres' = [logs |-> << >>, err |-> "failed to get pod details"]
              /\ lpc' = "done"
         ELSE /\ lpc' = AfterGetPod(podContainers)
              /\ UNCHANGED lres
    /\ podGets' = podGets + 1
    /\ UNCHANGED <<podExists, podContainers, containerName, idx, allLogs, visits>>
    /\ UNCHANGED outsideLogs

\* One container: the stream without a container option.
StreamSingle ==
    /\ lpc = "single"
    /\ \E outcome \in Outcomes :
          /\ visits' = Append(visits, [container |-> podContainers[1], outcome |-> outcome])
          /\ lres' = CASE outcome = "streamfail" ->
                            [logs |-> << >>, err |-> "failed to get logs"]
                       [] outcome = "copyfail" ->
                            [logs |-> << >>, err |-> "failed to read logs"]
                       [] OTHER -> [logs |-> LogLines(podContainers[1]), err |-> ""]
    /\ lpc' = "done"
    /\ UNCHANGED <<podExists, podContainers, containerName, idx, allLogs, podGets>>
    /\ UNCHANGED outsideLogs

\* for _, container := range pod.Spec.Containers: one round.
StreamContainer ==
    /\ lpc = "loop"
    /\ idx < Len(podContainers)
    /\ \E outcome \in Outcomes :
          LET c == podContainers[idx + 1]
              b == LoopBody(c, outcome, allLogs)
          IN  /\ visits' = Append(visits, [container |-> c, outcome |-> outcome])
              /\ allLogs' = b.allLogs
              /\ IF b.next = "return"
                   THEN /\ lres' = [logs |-> << >>, err |-> b.err]
                        /\ lpc' = "done"
                        /\ UNCHANGED idx
                   ELSE /\ idx' = idx + 1
                        /\ UNCHANGED <<lres, lpc>>
    /\ UNCHANGED <<podExists, podContainers, containerName, podGets>>
    /\ UNCHANGED outsideLogs

\* return allLogs.String(), nil
ReturnAllLogs ==
    /\ lpc = "loop"
    /\ idx = Len(podContainers)
    /\ lres' = [logs |-> allLogs, err |-> ""]
    /\ lpc' = "done"
    /\ UNCHANGED <<podExists, podContainers, containerName, idx, allLogs, visits,
                   podGets>>
    /\ UNCHANGED outsideLogs

NextLogs ==
    \/ StreamNamed
    \/ GetPod
    \/ StreamSingle
    \/ StreamContainer
    \/ ReturnAllLogs

\* -------------------------------------------------------- RolloutRestart

\* time.Now().Format(time.RFC3339) at the calls.
Times == {"t1", "t2"}

\* An object as far as a restart is concerned: template says whether it
\* has spec.template, restartedAt is the annotation in the template.
Workload(kind, template) ==
    [kind |-> kind, template |-> template, restartedAt |-> "", generation |-> 1]
NoWorkload == [kind |-> "", template |-> FALSE, restartedAt |-> "", generation |-> 0]

Catalogue ==
    [k \in {<<"deployments", "default", "web">>, <<"pods", "default", "p">>,
            <<"widgets", "default", "w">>} |->
        CASE k[1] = "deployments" -> Workload("Deployment", TRUE)
          [] k[1] = "pods" -> Workload("Pod", FALSE)
          [] OTHER -> Workload("Widget", FALSE)]

\* The resources the API server serves from a schema that has
\* spec.template, and the custom resources.
TemplateResources == {"deployments"}
CustomResources == {"widgets", "badwidgets"}

\* The API server's answer to the strategic merge patch
\* {"spec":{"template":{"metadata":{"annotations":{restartedAt: now}}}}}:
\* not-found for an object that is not there, unsupported for a custom
\* resource (no strategic merge patch), else the patch is merged and the
\* document decoded by the schema of the resource, which keeps
\* spec.template where the schema has it and drops it where it has not.
ServerStrategicPatch(objs, key, now) ==
    IF key \notin DOMAIN objs
      THEN [out |-> "notfound", objs |-> objs, doc |-> NoWorkload]
    ELSE IF key[1] \in CustomResources
      THEN [out |-> "unsupported", objs |-> objs, doc |-> NoWorkload]
    ELSE IF key[1] \in TemplateResources
      THEN LET old == objs[key]
               doc == [old EXCEPT !.template = TRUE, !.restartedAt = now,
                                  !.generation = IF old.restartedAt # now
                                                   THEN @ + 1 ELSE @]
           IN  [out |-> "ok", objs |-> MapPut(objs, key, doc), doc |-> doc]
    ELSE [out |-> "ok", objs |-> objs, doc |-> objs[key]]

\* The mutant of NestedMapFound: every result passes the check.
NestedMapFoundAlways(content) == TRUE

\* spec, found, _ := unstructured.NestedMap(content, "spec", "template");
\* found && spec != nil
NestedMapFound(content) == content.template

NoRestartArgs == [kind |-> "", name |-> "", namespace |-> "", now |-> ""]
NoRestartResult == [content |-> NoWorkload, err |-> "none"]

IdleRestart ==
    /\ workloads = << >>
    /\ rrpc = "idle"
    /\ rrargs = NoRestartArgs
    /\ rrgvr = NoGVR
    /\ rrresult = NoWorkload
    /\ rrhist = << >>
    /\ rrbefore = NoWorkload
    /\ rrres = NoRestartResult
    /\ rrcalls = 0

StartRestart ==
    /\ \E K \in SUBSET (DOMAIN Catalogue) : workloads = [k \in K |-> Catalogue[k]]
    /\ rrpc = "idle"
    /\ rrargs = NoRestartArgs
    /\ rrgvr = NoGVR
    /\ rrresult = NoWorkload
    /\ rrhist = << >>
    /\ rrbefore = NoWorkload
    /\ rrres = NoRestartResult
    /\ rrcalls = 0

RestartTarget == <<rrgvr.Resource, rrargs.namespace, rrargs.name>>

WorkloadAt(objs, key) == IF key \in DOMAIN objs THEN objs[key] ELSE NoWorkload

\* A tool call enters RolloutRestart: gvr, err := c.getCachedGVR(kind).
RestartBegin(kind, name, namespace) ==
    /\ rrpc \in {"idle", "done"}
    /\ rrcalls < MaxRestartCalls
    /\ rrcalls' = rrcalls + 1
    /\ rrargs' = [kind |-> kind, name |-> name, namespace |-> namespace, now |-> ""]
    /\ rrresult' = NoWorkload
    /\ LET r == GetCachedGVR(apiResourceCache, Answers[discovery], kind)
       IN  /\ apiResourceCache' = r.cache
           /\ rrgvr' = r.gvr
           /\ rrhist' = IF r.discovered
                          THEN <<[call |-> "discovery", out |-> r.err]>> ELSE << >>
           /\ rrbefore' = WorkloadAt(workloads, <<r.gvr.Resource, namespace, name>>)
           /\ IF r.err # ""
                THEN rrpc' = "done" /\ rrres' = [content |-> NoWorkload, err |-> r.err]
                ELSE rrpc' = "patch" /\ rrres' = NoRestartResult
    /\ UNCHANGED <<workloads, discovery, cacheWorkerVars>>
    /\ UNCHANGED outsideRestart

\* The patch is built from the clock and sent:
\* resource.Patch(ctx, name, types.StrategicMergePatchType, patch, ...).
RestartPatch ==
    /\ rrpc = "patch"
    /\ \E now \in Times, fault \in BOOLEAN :
         LET r == IF fault THEN [out |-> "fault", objs |-> workloads, doc |-> NoWorkload]
                  ELSE ServerStrategicPatch(workloads, RestartTarget, now)
         IN  /\ rrargs' = [rrargs EXCEPT !.now = now]
             /\ rrhist' = Append(rrhist, [call |-> "patch", out |-> r.out])
             /\ workloads' = r.objs
             /\ rrresult' = r.doc
             /\ IF r.out # "ok"
                  THEN rrpc' = "done" /\ rrres' = [content |-> NoWorkload, err |-> "patch"]
                  ELSE rrpc' = "check" /\ UNCHANGED rrres
    /\ UNCHANGED <<rrgvr, rrbefore, rrcalls, apiResourceCache, discovery, cacheWorkerVars>>
    /\ UNCHANGED outsideRestart

\* The check of spec.template in the result, and the return.
RestartCheck ==
    /\ rrpc = "check"
    /\ rrhist' = Append(rrhist, [call |-> "check", out |-> ""])
    /\ rrres' = IF ~NestedMapFound(rrresult)
                  THEN [content |-> NoWorkload, err |-> "no-template"]
                  ELSE [content |-> rrresult, err |-> ""]
    /\ rrpc' = "done"
    /\ UNCHANGED <<workloads, rrargs, rrgvr, rrresult, rrbefore, rrcalls,
                   apiResourceCache, discovery, cacheWorkerVars>>
    /\ UNCHANGED outsideRestart

\* The answer of the discovery endpoint changes between calls.
RestartClusterChange ==
    /\ rrpc \in {"idle", "done"}
    /\ \E a \in 1..Len(Answers) : a # discovery /\ discovery' = a
    /\ UNCHANGED <<apiResourceCache, cacheWorkerVars, restartVars>>
    /\ UNCHANGED outsideRestart

RestartCalls ==
    { <<"Deployment", "web">>, <<"Deployment", "p">>, <<"Pod", "p">>,
      <<"Widget", "w">>, <<"Ghost", "web">> }

NextRestart ==
    \/ \E c \in RestartCalls : RestartBegin(c[1], c[2], "default")
    \/ RestartPatch
    \/ RestartCheck
    \/ RestartClusterChange

\* ------------------------------------- reads, delete and metrics reads

\* The operations that resolve a kind first, and those that do not.
KindOps == {"GetResource", "DescribeResource", "ListResources", "DeleteResource"}
PlainOps == {"GetPodMetrics", "GetNodeMetrics", "GetEvents"}

NoAccessArgs == [op |-> "", kind |-> "", name |-> "", namespace |-> ""]
NoAccessResult == [value |-> << >>, err |-> "none"]

IdleAccess ==
    /\ opc = "idle"
    /\ oargs = NoAccessArgs
    /\ ogvr = NoGVR
    /\ ohist = << >>
    /\ ores = NoAccessResult
    /\ ocalls = 0
    /\ oprev = [args |-> NoAccessArgs, res |-> NoAccessResult]

\* The one cluster call of each operation.
CallOf(op) ==
    CASE op \in {"GetResource", "DescribeResource"} -> "get"
      [] op = "ListResources" -> "list"
      [] op = "DeleteResource" -> "delete"
      [] op \in {"GetPodMetrics", "GetNodeMetrics"} -> "metrics"
      [] op = "GetEvents" -> "events"

\* What the call addresses: the resource (for the metrics API and the
\* events, its name there), the namespace and the name.
AccessTarget(args, gvr) ==
    CASE args.op \in KindOps -> <<gvr.Resource, args.namespace, args.name>>
      [] args.op = "GetPodMetrics" -> <<"podmetrics", args.namespace, args.name>>
      [] args.op = "GetNodeMetrics" -> <<"nodemetrics", "", args.name>>
      [] args.op = "GetEvents" -> <<"events", args.namespace, "">>

\* {"name", "kind", "namespace"} of the items of a list.
Items(objs, resource, namespace) ==
    { [name |-> k[3], kind |-> objs[k].kind, namespace |-> k[2]] :
        k \in {x \in DOMAIN objs : x[1] = resource /\ (namespace = "" \/ x[2] = namespace)} }

\* The API server's answer to the call: a get and a delete of an object
\* that is not there are not-found, a metrics read finds metrics for the
\* pods that exist, lists answer with what there is.
ServerAnswer(objs, call, target) ==
    CASE call = "get" ->
            IF target \in DOMAIN objs
              THEN [out |-> "ok", objs |-> objs, value |-> objs[target]]
              ELSE [out |-> "notfound", objs |-> objs, value |-> << >>]
      [] call = "delete" ->
            IF target \in DOMAIN objs
              THEN [out |-> "ok", objs |-> [k \in DOMAIN objs \ {target} |-> objs[k]],
                    value |-> << >>]
              ELSE [out |-> "notfound", objs |-> objs, value |-> << >>]
      [] call = "list" ->
            [out |-> "ok", objs |-> objs, value |-> Items(objs, target[1], target[2])]
      [] call = "metrics" ->
            IF <<"pods", target[2], target[3]>> \in DOMAIN objs
              THEN [out |-> "ok", objs |-> objs,
                    value |-> [podName |-> target[3], namespace |-> target[2]]]
              ELSE [out |-> "notfound", objs |-> objs, value |-> << >>]
      [] call = "events" ->
            [out |-> "ok", objs |-> objs, value |-> {}]

\* The mutant of AfterCall: a call that failed for another reason than
\* not-found is made again.
AfterCallRetry(out) == IF out = "fault" THEN "call" ELSE "done"

\* The mutant of CallFailed: a not-found answer is not an error.
CallFailedUnlessNotFound(out) == out \notin {"ok", "notfound"}

\* if err != nil { return fmt.Errorf(...) } after the cluster call.
CallFailed(out) == out # "ok"

\* After the cluster call the operation returns, whatever the answer.
AfterCall(out) == "done"

StartAccess ==
    /\ \E K \in SUBSET (DOMAIN Catalogue) : workloads = [k \in K |-> Catalogue[k]]
    /\ rrpc = "idle"
    /\ rrargs = NoRestartArgs
    /\ rrgvr = NoGVR
    /\ rrresult = NoWorkload
    /\ rrhist = << >>
    /\ rrbefore = NoWorkload
    /\ rrres = NoRestartResult
    /\ rrcalls = 0
    /\ IdleAccess

\* A tool call enters one of the operations; those that take a kind begin
\* with gvr, err := c.getCachedGVR(kind).
AccessBegin(op, kind, name, namespace) ==
    /\ opc \in {"idle", "done"}
    /\ ocalls < MaxAccessCalls
    /\ ocalls' = ocalls + 1
    /\ oargs' = [op |-> op, kind |-> kind, name |-> name, namespace |-> namespace]
    /\ oprev' = [args |-> oargs, res |-> ores]
    /\ IF op \in KindOps
         THEN LET r == GetCachedGVR(apiResourceCache, Answers[discovery], kind)
              IN  /\ apiResourceCache' = r.cache
                  /\ ogvr' = r.gvr
                  /\ ohist' = IF r.discovered
                                THEN <<[call |-> "discovery", target |-> <<"", "", "">>,
                                        out |-> r.err]>>
                                ELSE << >>
                  /\ IF r.err # ""
                       THEN opc' = "done" /\ ores' = [value |-> << >>, err |-> r.err]
                       ELSE opc' = "call" /\ ores' = NoAccessResult
         ELSE /\ UNCHANGED apiResourceCache
              /\ ogvr' = NoGVR
              /\ ohist' = << >>
              /\ opc' = "call"
              /\ ores' = NoAccessResult
    /\ UNCHANGED <<discovery, cacheWorkerVars, restartVars>>
    /\ UNCHANGED outsideAccess

\* The cluster call of the operation, its answer, and the return.
AccessCall ==
    /\ opc = "call"
    /\ \E fault \in BOOLEAN :
         LET call == CallOf(oargs.op)
             target == AccessTarget(oargs, ogvr)
             r == IF fault THEN [out |-> "fault", objs |-> workloads, value |-> << >>]
                  ELSE ServerAnswer(workloads, call, target)
         IN  /\ ohist' = Append(ohist, [call |-> call, target |-> target, out |-> r.out])
             /\ workloads' = r.objs
             /\ opc' = AfterCall(r.out)
             /\ ores' = IF CallFailed(r.out) THEN [value |-> << >>, err |-> CallOf(oargs.op)]
                        ELSE [value |-> r.value, err |-> ""]
    /\ UNCHANGED <<oargs, ogvr, ocalls, oprev>>
    /\ UNCHANGED <<rrpc, rrargs, rrgvr, rrresult, rrhist, rrbefore, rrres, rrcalls>>
    /\ UNCHANGED <<apiResourceCache, discovery, cacheWorkerVars>>
    /\ UNCHANGED outsideAccess

\* The answer of the discovery endpoint changes between calls.
AccessClusterChange ==
    /\ opc \in {"idle", "done"}
    /\ \E a \in 1..Len(Answers) : a # discovery /\ discovery' = a
    /\ UNCHANGED <<apiResourceCache, cacheWorkerVars, restartVars, accessVars>>
    /\ UNCHANGED outsideAccess

AccessCalls ==
    { <<"GetResource", "Deployment", "web", "default">>,
      <<"GetResource", "Deployment", "web", "">>,
      <<"DescribeResource", "Pod", "p", "default">>,
      <<"ListResources", "Pod", "", "">>,
      <<"ListResources", "Deployment", "", "default">>,
      <<"DeleteResource", "Deployment", "web", "default">>,
      <<"DeleteResource", "Ghost", "web", "default">>,
      <<"GetPodMetrics", "", "p", "default">>,
      <<"GetNodeMetrics", "", "n1", "">>,
      <<"GetEvents", "", "", "default">> }

NextAccess ==
    \/ \E c \in AccessCalls : AccessBegin(c[1], c[2], c[3], c[4])
    \/ AccessCall
    \/ AccessClusterChange

\* ----------------------------------------------------------- GetIngresses

\* A path of a rule; service is "" where path.Backend.Service is nil.
HTTPPath(path, service) == [path |-> path, service |-> service]
\* A rule; http is FALSE where rule.HTTP is nil.
Rule(h, http, paths) == [host |-> h, http |-> http, paths |-> paths]
Ingress(name, rules) == [name |-> name, namespace |-> "default", rules |-> rules]

IngressCatalogue ==
    { Ingress("shop", <<Rule("a.example", TRUE, <<HTTPPath("/", "shop"),
                                                   HTTPPath("/img", "")>>),
                        Rule("b.example", TRUE, <<HTTPPath("/b", "shop-b")>>)>>),
      Ingress("blog", <<Rule("b.example", TRUE, <<HTTPPath("/", "blog")>>)>>),
      Ingress("twice", <<Rule("a.example", TRUE, <<HTTPPath("/1", "one")>>),
                         Rule("c.example", FALSE, << >>),
                         Rule("a.example", TRUE, <<HTTPPath("/2", "two")>>)>>),
      Ingress("tcp", <<Rule("a.example", FALSE, << >>)>>),
      Ingress("anyhost", <<Rule("", TRUE, <<HTTPPath("/", "any")>>)>>),
      Ingress("default-only", << >>) }

Hosts == {"", "a.example", "b.example", "z.example"}

RECURSIVE PathsOf(_)
\* for _, path := range rule.HTTP.Paths: [paths, services] appended.
PathsOf(paths) ==
    IF paths = << >> THEN [paths |-> << >>, services |-> << >>]
    ELSE LET rest == PathsOf(Tail(paths))
             p == Head(paths)
         IN  [paths |-> <<p.path>> \o rest.paths,
              services |-> (IF p.service # "" THEN <<p.service>> ELSE << >>)
                           \o rest.services]

\* A rule is processed when there is no host filter or its host is the filter.
RuleMatches(h, rule) == h = "" \/ rule.host = h

RECURSIVE ScanRules(_, _)
\* for _, rule := range ingress.Spec.Rules:
\* [hasMatchingHost, matchingPaths, matchingBackendServices].
ScanRules(h, rules) ==
    IF rules = << >>
      THEN [hasMatchingHost |-> FALSE, matchingPaths |-> << >>,
            matchingBackendServices |-> << >>]
    ELSE LET rule == Head(rules)
             rest == ScanRules(h, Tail(rules))
             own == IF rule.http THEN PathsOf(rule.paths)
                    ELSE [paths |-> << >>, services |-> << >>]
         IN  IF ~RuleMatches(h, rule) THEN rest
             ELSE [hasMatchingHost |-> TRUE,
                   matchingPaths |-> own.paths \o rest.matchingPaths,
                   matchingBackendServices |-> own.services \o rest.matchingBackendServices]

RECURSIVE IngressList(_, _)
\* for _, ingress := range ingresses.Items: the ingressList built.
IngressList(h, items) ==
    IF items = << >> THEN << >>
    ELSE LET ingress == Head(items)
             s == ScanRules(h, ingress.rules)
         IN  (IF s.hasMatchingHost
                THEN <<[name |-> ingress.name, namespace |-> ingress.namespace,
                        paths |-> s.matchingPaths,
                        backendServices |-> s.matchingBackendServices]>>
                ELSE << >>)
             \o IngressList(h, Tail(items))

NoIngressResult == [list |-> << >>, err |-> "none"]

IdleIngress ==
    /\ ingresses = << >>
    /\ host = ""
    /\ ipc = "idle"
    /\ ires = NoIngressResult

\* A call GetIngresses(ctx, host) against a cluster of up to MaxIngresses
\* of the ingresses of the catalogue.
StartIngress ==
    /\ ingresses \in UNION {Arrangements(IngressCatalogue, n) : n \in 0..MaxIngresses}
    /\ host \in Hosts
    /\ ipc = "start"
    /\ ires = NoIngressResult

\* Ingresses("").List, and the filtering of what it returned.
GetIngresses ==
    /\ ipc = "start"
    /\ \E fault \in BOOLEAN :
          ires' = IF fault THEN [list |-> << >>, err |-> "failed to retrieve ingresses"]
                  ELSE [list |-> IngressList(host, ingresses), err |-> ""]
    /\ ipc' = "done"
    /\ UNCHANGED <<ingresses, host>>
    /\ UNCHANGED outsideIngress

NextIngress == GetIngresses

\* ------------------------------------------- concurrent createOrUpdate

IdlePair ==
    /\ pargs = NoArgs
    /\ ppc = [w \in Workers |-> "idle"]
    /\ pobj = [w \in Workers |-> NoDoc]
    /\ pgvr = [w \in Workers |-> NoGVR]
    /\ phist = [w \in Workers |-> << >>]
    /\ perr = [w \in Workers |-> "none"]

\* The manifests that name an object.
NamedManifests == {x \in Manifests : x.syntax = "object" /\ x.name # ""}

\* Every worker is about to call CreateOrUpdateResourceJSON / YAML with the
\* same arguments.
StartPair ==
    /\ pargs \in [format : Formats, namespace : NamespaceArgs \ {""},
                  manifest : NamedManifests, kind : {"Deployment"}]
    /\ ppc = [w \in Workers |-> "start"]
    /\ pobj = [w \in Workers |-> NoDoc]
    /\ pgvr = [w \in Workers |-> NoGVR]
    /\ phist = [w \in Workers |-> << >>]
    /\ perr = [w \in Workers |-> "none"]

\* return nil, err / return result, nil
PairFinish(w, err) ==
    /\ ppc' = [ppc EXCEPT ![w] = "done"]
    /\ perr' = [perr EXCEPT ![w] = err]

\* if obj.GetName() == "" { return error }: the step before the patch.
PairNameCheck(w, obj) ==
    IF obj.name = ""
      THEN PairFinish(w, "name-required")
      ELSE ppc' = [ppc EXCEPT ![w] = "patch"] /\ UNCHANGED perr

applyCallVars == <<apc, aargs, aobj, agvr, ahist, aerr, ares, aprev, acalls, akind, astart>>

\* The call of worker w parses the manifest and resolves the kind; the YAML
\* variant then applies the namespace override and checks the name.
PairBegin(w) ==
    /\ ppc[w] = "start"
    /\ LET conv == IF pargs.format = "yaml" THEN YAMLToJSON(pargs.manifest)
                   ELSE [ok |-> TRUE, json |-> pargs.manifest]
           parsed == Unmarshal(conv.json)
           kind == EffectiveKind(pargs.format, pargs.kind, parsed.obj)
           r == GetCachedGVR(apiResourceCache, Answers[discovery], kind)
           obj == IF pargs.namespace # "" THEN SetNamespace(parsed.obj, pargs.namespace)
                  ELSE parsed.obj
       IN  IF ~conv.ok \/ ~parsed.ok
             THEN /\ PairFinish(w, "parse")
                  /\ UNCHANGED <<pobj, pgvr, phist, apiResourceCache>>
           ELSE IF pargs.format = "yaml" /\ kind = ""
             THEN /\ PairFinish(w, "kind-required")
                  /\ pobj' = [pobj EXCEPT ![w] = parsed.obj]
                  /\ UNCHANGED <<pgvr, phist, apiResourceCache>>
           ELSE /\ apiResourceCache' = r.cache
                /\ pgvr' = [pgvr EXCEPT ![w] = r.gvr]
                /\ phist' = IF r.discovered
                              THEN [phist EXCEPT ![w] =
                                       Append(@, [call |-> "discovery", out |-> r.err])]
                              ELSE phist
                /\ IF r.err # ""
                     THEN PairFinish(w, r.err) /\ pobj' = [pobj EXCEPT ![w] = parsed.obj]
                   ELSE IF pargs.format = "json"
                     THEN /\ ppc' = [ppc EXCEPT ![w] = "nsGet"]
                          /\ pobj' = [pobj EXCEPT ![w] = parsed.obj]
                          /\ UNCHANGED perr
                   ELSE pobj' = [pobj EXCEPT ![w] = obj] /\ PairNameCheck(w, obj)
    /\ UNCHANGED <<pargs, namespaces, objects, applyCallVars, discovery, cacheWorkerVars>>
    /\ UNCHANGED outsidePair

\* Namespaces().Get of worker w (JSON variant).
PairNsGet(w) ==
    /\ ppc[w] = "nsGet"
    /\ LET out == IF pargs.namespace \in namespaces THEN "ok" ELSE "notfound"
           obj == SetNamespace(pobj[w], pargs.namespace)
       IN  /\ phist' = [phist EXCEPT ![w] = Append(@, [call |-> "nsGet", out |-> out])]
           /\ IF IsNotFound(out)
                THEN ppc' = [ppc EXCEPT ![w] = "nsCreate"] /\ UNCHANGED <<pobj, perr>>
              ELSE IF NamespaceFailed(out)
                THEN PairFinish(w, "namespace") /\ UNCHANGED pobj
              ELSE pobj' = [pobj EXCEPT ![w] = obj] /\ PairNameCheck(w, obj)
    /\ UNCHANGED <<pargs, pgvr, namespaces, objects, applyCallVars, apiResourceCache,
                   discovery, cacheWorkerVars>>
    /\ UNCHANGED outsidePair

\* Namespaces().Create of worker w, after its not-found lookup.
PairNsCreate(w) ==
    /\ ppc[w] = "nsCreate"
    /\ LET out == IF pargs.namespace \in namespaces THEN "exists" ELSE "ok"
           obj == SetNamespace(pobj[w], pargs.namespace)
       IN  /\ phist' = [phist EXCEPT ![w] = Append(@, [call |-> "nsCreate", out |-> out])]
           /\ namespaces' = IF out = "ok" THEN namespaces \cup {pargs.namespace}
                            ELSE namespaces
           /\ IF NamespaceFailed(out)
                THEN PairFinish(w, "namespace") /\ UNCHANGED pobj
                ELSE pobj' = [pobj EXCEPT ![w] = obj] /\ PairNameCheck(w, obj)
    /\ UNCHANGED <<pargs, pgvr, objects, applyCallVars, apiResourceCache, discovery,
                   cacheWorkerVars>>
    /\ UNCHANGED outsidePair

PairTarget(w) == <<pgvr[w].Resource, pobj[w].namespace, pobj[w].name>>

\* resource.Patch of worker w, with the manifest as given.
PairPatch(w) ==
    /\ ppc[w] = "patch"
    /\ LET r == ServerPatch(objects, PairTarget(w), Unmarshal(pargs.manifest).obj)
       IN  /\ phist' = [phist EXCEPT ![w] = Append(@, [call |-> "patch", out |-> r.out])]
           /\ objects' = r.objs
           /\ IF IsNotFound(r.out)
                THEN ppc' = [ppc EXCEPT ![w] = "create"] /\ UNCHANGED perr
              ELSE IF r.out # "ok"
                THEN PairFinish(w, "apply")
              ELSE PairFinish(w, "")
    /\ UNCHANGED <<pargs, pobj, pgvr, namespaces, applyCallVars, apiResourceCache,
                   discovery, cacheWorkerVars>>
    /\ UNCHANGED outsidePair

\* resource.Create of worker w, after its not-found patch.
PairCreate(w) ==
    /\ ppc[w] = "create"
    /\ LET r == ServerCreate(objects, namespaces, PairTarget(w), pobj[w])
       IN  /\ phist' = [phist EXCEPT ![w] = Append(@, [call |-> "create", out |-> r.out])]
           /\ objects' = r.objs
           /\ IF r.out # "ok" THEN PairFinish(w, "apply") ELSE PairFinish(w, "")
    /\ UNCHANGED <<pargs, pobj, pgvr, namespaces, applyCallVars, apiResourceCache,
                   discovery, cacheWorkerVars>>
    /\ UNCHANGED outsidePair

NextPair ==
    \/ \E w \in Workers : PairBegin(w)
    \/ \E w \in Workers : PairNsGet(w)
    \/ \E w \in Workers : PairNsCreate(w)
    \/ \E w \in Workers : PairPatch(w)
    \/ \E w \in Workers : PairCreate(w)

\* ---------------------------------------------------------- specifications

InitCacheOnly == InitCache /\ IdleApply /\ IdleMain /\ IdleLogs /\ IdleRestart /\ IdleAccess /\ IdleIngress /\ IdlePair
SpecCache == InitCacheOnly /\ [][NextCache]_vars

\* Every call that has started keeps running (each tool call has its own
\* goroutine and the discovery call returns), and sync.RWMutex lets no
\* RLock and no Lock wait forever while the lock keeps being released.
FairCalls ==
    \A w \in Workers :
        /\ SF_vars(RLock(w))
        /\ WF_vars(CacheLookup(w))
        /\ WF_vars(Discover(w))
        /\ SF_vars(Lock(w))
        /\ WF_vars(Store(w))
SpecCacheLive == InitCacheOnly /\ [][NextCache]_vars /\ FairCalls

InitApply == StartApply /\ IdleCache /\ IdleMain /\ IdleLogs /\ IdleRestart /\ IdleAccess /\ IdleIngress /\ IdlePair
SpecApply == InitApply /\ [][NextApply]_vars

InitResolve == StartResolve /\ IdleCache /\ IdleApply /\ IdleLogs /\ IdleRestart /\ IdleAccess /\ IdleIngress /\ IdlePair
SpecResolve == InitResolve /\ [][NextResolve]_vars

InitMain == StartMain /\ IdleCache /\ IdleApply /\ IdleLogs /\ IdleRestart /\ IdleAccess /\ IdleIngress /\ IdlePair
SpecMain == InitMain /\ [][NextMain]_vars

InitLogs == StartLogs /\ IdleCache /\ IdleApply /\ IdleMain /\ IdleRestart /\ IdleAccess /\ IdleIngress /\ IdlePair
SpecLogs == InitLogs /\ [][NextLogs]_vars

InitRestart == StartRestart /\ IdleCache /\ IdleApply /\ IdleMain /\ IdleLogs /\ IdleAccess /\ IdleIngress /\ IdlePair
SpecRestart == InitRestart /\ [][NextRestart]_vars

InitAccess == StartAccess /\ IdleCache /\ IdleApply /\ IdleMain /\ IdleLogs /\ IdleIngress /\ IdlePair
SpecAccess == InitAccess /\ [][NextAccess]_vars

InitPair == StartPair /\ StartApply /\ IdleCache /\ IdleMain /\ IdleLogs /\ IdleRestart /\ IdleAccess /\ IdleIngress
SpecPair == InitPair /\ [][NextPair]_vars

InitIngress == StartIngress /\ IdleCache /\ IdleApply /\ IdleMain /\ IdleLogs /\ IdleRestart /\ IdleAccess /\ IdlePair
SpecIngress == InitIngress /\ [][NextIngress]_vars

\* ------------------------------------------------- kind cache: properties

\* The kinds no discovery answer contains.
AbsentKinds ==
    {k \in KindNames :
        \A a \in DOMAIN Answers : \A i \in DOMAIN Answers[a].lists :
            \A j \in DOMAIN Answers[a].lists[i].APIResources :
                Answers[a].lists[i].APIResources[j].Kind # k}

\* Workers that are between their discovery call and their return.
InFlight(k) == {w \in Workers : rkind[w] = k /\ rpc[w] \in {"lock", "store"}}

\* C1 (as claimed): a call for a kind that starts after a call for that kind
\* has returned coordinates returns those same coordinates, without error
\* and without a discovery call.
C1_CacheHitSameCoordinates ==
    \A w \in Workers :
        (rpc[w] = "done" /\ startSeen[w] # {}) =>
            /\ rerr[w] = ""
            /\ ndisc[w] = 0
            /\ \A g \in startSeen[w] : rgvr[w] = g

\* C2: a call for a kind that is in no discovery answer makes exactly one
\* discovery call, writes nothing to the cache and fails: with not-found
\* when discovery answered, with the discovery error when it did not. The
\* kind is never cached, and as many discovery calls as calls were made.
C2_NoNegativeCaching ==
    \A k \in AbsentKinds :
        /\ k \notin DOMAIN apiResourceCache
        /\ InFlight(k) = {}
        /\ discCount[k] =
              callCount[k]
              - Cardinality({w \in Workers :
                    rkind[w] = k /\ rpc[w] \in {"rlock", "read", "discover"}})
        /\ \A w \in Workers :
              (rpc[w] = "done" /\ rkind[w] = k) =>
                  /\ ndisc[w] = 1
                  /\ nstore[w] = 0
                  /\ rgvr[w] = NoGVR
                  /\ rerr[w] = IF DiscoveryFatal(Answers[rans[w]].err)
                                 THEN "discovery" ELSE "notfound"

\* Two calls for an absent kind have both failed with not-found, each after
\* its own discovery call.
C2_Witness ==
    \E k \in AbsentKinds :
        /\ callCount[k] = 2 /\ discCount[k] = 2
        /\ \E w \in Workers :
              rpc[w] = "done" /\ rkind[w] = k /\ rerr[w] = "notfound"
        /\ \A w \in Workers : rkind[w] = k => rpc[w] = "done"

\* C6: when every discovery call made for a kind received the same answer,
\* each call made at most one discovery call (one to N in all once a call
\* has succeeded), every successful call returned the coordinates of the
\* first match in that answer, and once a call that missed has returned the
\* cache holds exactly that coordinate for the kind.
C6_ConcurrentMissesConverge ==
    \A k \in KindNames :
        Cardinality(answersUsed[k]) <= 1 =>
            /\ discCount[k] <= callCount[k]
            /\ \A w \in Workers :
                  (rkind[w] = k /\ rpc[w] = "done" /\ rerr[w] = "") =>
                      /\ ndisc[w] <= 1
                      /\ discCount[k] >= 1
                      /\ k \in DOMAIN apiResourceCache
                      /\ apiResourceCache[k] = rgvr[w]
                      /\ \A a \in answersUsed[k] :
                            rgvr[w] = ScanResourceLists(Answers[a].lists, k).gvr
            /\ Cardinality(returnedOK[k]) <= 1

\* Two workers missed on the same kind, each made its own discovery call
\* (no single-flight), both got the same answer and both have returned.
C6_Witness ==
    \E k \in KindNames : \E w1, w2 \in Workers :
        /\ w1 # w2
        /\ rkind[w1] = k /\ rkind[w2] = k
        /\ rpc[w1] = "done" /\ rpc[w2] = "done"
        /\ rerr[w1] = "" /\ rerr[w2] = ""
        /\ ndisc[w1] = 1 /\ ndisc[w2] = 1
        /\ discCount[k] = 2
        /\ Cardinality(answersUsed[k]) = 1
        /\ k \in DOMAIN apiResourceCache /\ apiResourceCache[k] = rgvr[w1]


\* ------------------------------------------------ createOrUpdate: properties

Patches == {i \in DOMAIN ahist : ahist[i].call = "patch"}
Creates == {i \in DOMAIN ahist : ahist[i].call = "create"}
Injected == {i \in DOMAIN ahist : ahist[i].out = "fault"}

\* A document without its server-populated fields.
Strip(doc) == [doc EXCEPT !.generation = 0]

\* C3: a patch that reaches the cluster while its object does not exist
\* does not succeed, is the only patch of the call and, answered not-found,
\* is followed by exactly one create, issued after that answer and at no
\* other place.
C3_PatchNotFoundThenCreate ==
    \A i \in Patches :
        ahist[i].absent =>
            /\ ahist[i].out \in {"notfound", "fault"}
            /\ Patches = {i}
            /\ Creates \subseteq {i + 1}
            /\ ahist[i].out = "fault" => Creates = {}
            /\ ahist[i].out = "notfound" =>
                  IF i = Len(ahist) THEN apc = "create"
                  ELSE Creates = {i + 1} /\ Len(ahist) = i + 1 /\ apc = "done"

\* A call has patched an object that did not exist, got not-found, created
\* the object and returned it.
C3_Witness ==
    /\ apc = "done" /\ aerr = ""
    /\ Len(ahist) >= 2
    /\ ahist[Len(ahist) - 1].call = "patch"
    /\ ahist[Len(ahist) - 1].out = "notfound"
    /\ ahist[Len(ahist) - 1].absent
    /\ ahist[Len(ahist)].call = "create" /\ ahist[Len(ahist)].out = "ok"
    /\ Target \in DOMAIN objects /\ ares = objects[Target]

\* C4 (as claimed): a call that repeats the previous call, which succeeded,
\* and meets no cluster fault returns no error and leaves the stored
\* document as the previous call left it, up to server-populated fields.
C4_Idempotent ==
    (/\ apc = "done"
     /\ aprev.args = aargs /\ aprev.err = ""
     /\ Injected = {}) =>
        /\ aerr = ""
        /\ Strip(StoredAt(objects, Target)) = Strip(aprev.stored)

\* C5: a create is issued exactly when the patch before it was answered
\* not-found. A patch that fails otherwise ends the call with that error and
\* no create; a patch that succeeds ends it with success and no create; a
\* create ends the call with its own outcome.
C5_CreateIffPatchNotFound ==
    /\ \A i \in Patches :
          /\ Patches = {i}
          /\ ahist[i].out = "notfound" =>
                IF i = Len(ahist) THEN apc = "create" ELSE Creates = {i + 1}
          /\ ahist[i].out \in {"fault", "invalid"} =>
                Creates = {} /\ i = Len(ahist) /\ apc = "done" /\ aerr = "apply"
          /\ ahist[i].out = "ok" =>
                Creates = {} /\ i = Len(ahist) /\ apc = "done" /\ aerr = ""
    /\ \A j \in Creates :
          /\ j = Len(ahist) /\ apc = "done"
          /\ j - 1 \in Patches /\ ahist[j - 1].out = "notfound"
          /\ aerr = IF ahist[j].out = "ok" THEN "" ELSE "apply"
    /\ apc = "create" => Len(ahist) \in Patches

\* A patch of an existing object was refused by the cluster with an error
\* that is not not-found: the call returned the error and created nothing.
C5_Witness ==
    /\ apc = "done" /\ aerr = "apply"
    /\ ahist # << >>
    /\ ahist[Len(ahist)].call = "patch"
    /\ ahist[Len(ahist)].out \in {"fault", "invalid"}
    /\ ~ahist[Len(ahist)].absent

\* ------------------------------------------------- connection resolver

\* The sources in their order, and whether each is present.
SourceNames == <<"data", "server", "incluster", "file">>
Present(e) == <<e.data # "", e.server # "", e.tokenFile, TRUE>>
FirstPresent(e) == CHOOSE i \in 1..4 : Present(e)[i] /\ \A j \in 1..(i - 1) : ~Present(e)[j]

\* What consulting a source reads, beyond the test for its presence.
Consults(i) ==
    CASE i = 1 -> {}
      [] i = 2 -> {"KUBERNETES_TOKEN", "KUBERNETES_INSECURE", "KUBERNETES_CA_CERT",
                   "KUBERNETES_CA_CERT_PATH", "ca-file"}
      [] i = 3 -> {"in-cluster"}
      [] i = 4 -> {"KUBECONFIG", "home", "kubeconfig-file"}
PresenceTest(i) ==
    CASE i = 1 -> "KUBECONFIG_DATA"
      [] i = 2 -> "KUBERNETES_SERVER"
      [] i = 3 -> "stat-token"
      [] i = 4 -> "none"
ReadSet(r) == {r.reads[i] : i \in 1..Len(r.reads)}

\* C7: the resolver takes the first present source in the order inline
\* content, server with token, in-cluster token file, kubeconfig file, for
\* every combination of present and absent sources; a source after the
\* selected one is neither tested nor consulted, and of the sources before
\* it only the presence is tested; for the kubeconfig file the path is the
\* argument if non-empty, else KUBECONFIG, else the per-user default.
C7_FirstPresentSourceWins ==
    built # NoResult =>
        LET k == FirstPresent(env)
        IN  /\ built.source = SourceNames[k]
            /\ \A j \in 1..4 :
                  /\ j > k => PresenceTest(j) \notin ReadSet(built)
                  /\ j # k => Consults(j) \cap ReadSet(built) = {}
            /\ k = 4 =>
                  built.config.path =
                      IF kpath # << >> THEN kpath
                      ELSE IF env.kubeconfigEnv # << >> THEN env.kubeconfigEnv
                      ELSE IF env.home # << >> THEN env.home \o <<".kube", "config">>
                      ELSE << >>

\* The argument and KUBECONFIG both name a file and the argument is taken.
C7_Witness ==
    /\ built # NoResult
    /\ built.err = ""
    /\ built.source = "file"
    /\ kpath = ArgPath
    /\ env.kubeconfigEnv = EnvPath
    /\ built.config.path = ArgPath

\* The three ways the selected source fails before the kubeconfig file.
SelectedSourceFails(e) ==
    \/ e.data \in {"malformed", "nocontext"}
    \/ e.data = "" /\ e.server # "" /\ e.token = ""
    \/ e.data = "" /\ e.server = "" /\ e.tokenFile /\ ~e.inClusterOK

\* C8: when the selected source fails (inline content that does not load,
\* a server URL without a token, an in-cluster environment whose config
\* cannot be built) the resolver returns a configuration error and no
\* descriptor and does not look at a lower source, whether or not a
\* loadable kubeconfig file is there.
C8_NoFallThrough ==
    (built # NoResult /\ SelectedSourceFails(env)) =>
        /\ built.err # ""
        /\ built.config = NoConfig
        /\ built.source = SourceNames[FirstPresent(env)]
        /\ "kubeconfig-file" \notin ReadSet(built)

\* Inline content that does not load, beside a loadable default kubeconfig.
C8_Witness ==
    /\ built # NoResult
    /\ env.data = "malformed"
    /\ kpath = << >>
    /\ env.kubeconfigEnv = << >>
    /\ env.home = HomeDir
    /\ JoinKubeConfig(HomeDir) \in env.validFiles
    /\ built.err = "data"

\* ------------------------------------------------------------------ main

ClientsBuilt == mpc \in {"register", "serve", "serving"}

Aggregate(vs, Segment(_)) ==
    LET f[i \in 0..Len(vs)] == IF i = 0 THEN << >> ELSE f[i - 1] \o Segment(vs[i])
    IN  f[Len(vs)]

\* The segment of a visit as C10 states it: header and content when the
\* stream opened, the error marker when it did not.
SegmentAsStated(v) ==
    IF v.outcome = "streamfail"
      THEN <<"\n--- Error getting logs for container ", v.container, ": ",
             "stream-err", " ---\n">>
      ELSE <<"\n--- Logs for container ", v.container, " ---\n">> \o LogLines(v.container)

\* The segment of a visit with the read failure told apart: the header and
\* a read-error marker, and none of the content, when the stream opened but
\* reading it failed.
SegmentWithReadError(v) ==
    IF v.outcome = "copyfail"
      THEN <<"\n--- Logs for container ", v.container, " ---\n">>
           \o <<"Error reading logs: ", "copy-err", "\n">>
      ELSE SegmentAsStated(v)

MultiContainerCall == containerName = "" /\ podExists /\ Len(podContainers) >= 2

VisitsInDeclarationOrder ==
    /\ Len(visits) <= Len(podContainers)
    /\ \A i \in 1..Len(visits) : visits[i].container = podContainers[i]

\* C10 as stated: every container whose stream opens contributes its
\* header and its content.
C10_HeaderAndContentWhenStreamOpens ==
    MultiContainerCall =>
        /\ VisitsInDeclarationOrder
        /\ allLogs = Aggregate(visits, SegmentAsStated)
        /\ lpc = "done" =>
              /\ Len(visits) = Len(podContainers)
              /\ lres = [logs |-> allLogs, err |-> ""]

\* C10: for a pod of two or more containers and no containerName,
\* GetPodsLogs visits every container once, in declaration order; a
\* container whose stream opens and is read to its end contributes a
\* labelled header and its content, one whose stream opens but whose read
\* fails contributes the header and a read-error marker without content,
\* one whose stream does not open contributes an error marker, the loop
\* going on with the next container in each case; and the call returns the
\* aggregate with no error.
C10_PartialFailureTolerated ==
    MultiContainerCall =>
        /\ VisitsInDeclarationOrder
        /\ allLogs = Aggregate(visits, SegmentWithReadError)
        /\ lpc = "done" =>
              /\ Len(visits) = Len(podContainers)
              /\ lres = [logs |-> allLogs, err |-> ""]

\* A pod of three containers: the first read to its end, the stream of the
\* second not opening, the read of the third failing; the call returned.
C10_Witness ==
    /\ MultiContainerCall
    /\ lpc = "done"
    /\ Len(visits) = 3
    /\ visits[1].outcome = "ok"
    /\ visits[2].outcome = "streamfail"
    /\ visits[3].outcome = "copyfail"
    /\ lres.err = ""
    /\ Len(lres.logs) > 0

\* C11: with a containerName, GetPodsLogs asks for the stream of that
\* container only and never fetches the pod; without one it fetches the
\* pod first, a failed fetch failing the call before any stream is asked
\* for, and for a pod of exactly one container it asks for one stream and
\* returns that container's log lines as they are, with no header.
C11_ContainerSelection ==
    /\ containerName # "" =>
          /\ podGets = 0
          /\ Len(visits) <= 1
          /\ \A i \in 1..Len(visits) : visits[i].container = containerName
          /\ lpc = "done" =>
                /\ Len(visits) = 1
                /\ allLogs = << >>
                /\ lres.err = "" <=> visits[1].outcome = "ok"
                /\ lres.logs = IF visits[1].outcome = "ok"
                                 THEN LogLines(containerName) ELSE << >>
    /\ containerName = "" =>
          /\ podGets = IF lpc = "start" THEN 0 ELSE 1
          /\ Len(visits) > 0 => podExists
          /\ (lpc = "done" /\ ~podExists) => (lres.err # "" /\ lres.logs = << >>)
          /\ (lpc = "done" /\ podExists /\ Len(podContainers) = 1) =>
                /\ Len(visits) = 1
                /\ visits[1].container = podContainers[1]
                /\ lres.err = "" <=> visits[1].outcome = "ok"
                /\ lres.logs = IF visits[1].outcome = "ok"
                                 THEN LogLines(podContainers[1]) ELSE << >>

\* A pod of the one container A, no containerName: the call returned A's
\* two lines and nothing else.
C11_Witness ==
    /\ containerName = ""
    /\ podContainers = <<"A">>
    /\ lpc = "done"
    /\ podGets = 1
    /\ lres = [logs |-> <<"a1", "a2">>, err |-> ""]

\* -------------------------------------------------------- RolloutRestart

RestartDone == rrpc = "done" /\ rrres # NoRestartResult
PatchAccepted == \E i \in 1..Len(rrhist) : rrhist[i] = [call |-> "patch", out |-> "ok"]
Checked == \E i \in 1..Len(rrhist) : rrhist[i].call = "check"

\* The patch comes before the check, once, and no cluster call follows the
\* check.
PatchThenCheck ==
    /\ Cardinality({i \in 1..Len(rrhist) : rrhist[i].call = "patch"}) <= 1
    /\ \A i \in 1..Len(rrhist) :
          rrhist[i].call = "check" =>
              /\ i > 1
              /\ rrhist[i - 1] = [call |-> "patch", out |-> "ok"]
              /\ i = Len(rrhist)

WriteToolNames ==
    {"createResource", "createResourceYAML", "deleteResource", "rolloutRestart",
     "helmInstall", "helmUpgrade", "helmUninstall", "helmRollback", "helmRepoAdd"}
K8sReadToolNames ==
    {"getAPIResources", "listResources", "getResource", "describeResource",
     "getPodsLogs", "getNodeMetrics", "getPodMetrics", "getEvents", "getIngresses"}
HelmReadToolNames == {"helmList", "helmGet", "helmHistory", "helmRepoList"}

Registered == mpc \in {"serve", "serving"}

\* C13: with --read-only, whatever --no-k8s and --no-helm are, none of the
\* nine write tools is registered and every read tool of a category that
\* is not disabled is registered.
C13_ReadOnlyDisablesWrites ==
    (Registered /\ flags.readOnly) =>
        /\ tools \cap WriteToolNames = {}
        /\ ~flags.noK8s => K8sReadToolNames \subseteq tools
        /\ ~flags.noHelm => HelmReadToolNames \subseteq tools

\* The server is up read-only with both categories: the thirteen read
\* tools and nothing else.
C13_Witness ==
    /\ mpc = "serving"
    /\ flags.readOnly
    /\ ~flags.noK8s
    /\ ~flags.noHelm
    /\ tools = K8sReadToolNames \cup HelmReadToolNames

\* C14: with --no-k8s and --no-helm together main exits with status 1 from
\* the flag check, having run no resolver, built no client, registered no
\* tool and started no transport; and whenever the transport is reached,
\* at least one tool is registered.
C14_BothDisabledExits ==
    /\ (mpc # "flags" /\ flags.noK8s /\ flags.noHelm) =>
          /\ mpc = "exit1"
          /\ resolverLog = << >>
          /\ k8sClient = NoClient
          /\ helmClient = NoClient
          /\ tools = {}
    /\ mpc = "exit1" => (flags.noK8s /\ flags.noHelm)
    /\ mpc \in {"serve", "serving"} =>
          /\ ~(flags.noK8s /\ flags.noHelm)
          /\ tools # {}

\* Both categories disabled: main is at its exit with status 1.
C14_Witness ==
    /\ mpc = "exit1"
    /\ flags.noK8s
    /\ flags.noHelm
    /\ tools = {}
    /\ resolverLog = << >>

\* ------------------------------------------- createOrUpdate: namespaces

NsGets == {i \in DOMAIN ahist : ahist[i].call = "nsGet"}
NsCreates == {i \in DOMAIN ahist : ahist[i].call = "nsCreate"}

\* C15: the JSON variant looks the namespace up once, before the patch, and
\* creates it exactly when the lookup answered not-found, so that the
\* namespace exists when the patch is attempted; the YAML variant makes no
\* namespace lookup and no namespace create.
C15_NamespaceAutoCreateAsymmetric ==
    /\ aargs.format = "json" =>
          /\ Cardinality(NsGets) <= 1
          /\ \A i \in Patches : \E j \in NsGets : j < i
          /\ \A i \in NsCreates : (i - 1) \in NsGets /\ ahist[i - 1].out = "notfound"
          /\ \A j \in NsGets :
                ahist[j].out = "notfound" =>
                    IF j = Len(ahist) THEN apc = "nsCreate" ELSE (j + 1) \in NsCreates
          /\ (apc = "patch" \/ Patches # {}) => aargs.namespace \in namespaces
    /\ aargs.format = "yaml" => (NsGets = {} /\ NsCreates = {} /\ apc \notin {"nsGet", "nsCreate"})

\* A JSON call into the missing namespace prod: looked up, not found,
\* created, and the resource patch went out.
C15_Witness ==
    /\ aargs.format = "json"
    /\ aargs.namespace = "prod"
    /\ \E j \in NsGets : ahist[j].out = "notfound"
    /\ \E i \in NsCreates : ahist[i].out = "ok"
    /\ Patches # {}
    /\ "prod" \in namespaces

\* C16: with a non-empty namespace argument the patch and the create of
\* the call are sent to that namespace, and a document the call returns has
\* that namespace and is the one stored there, whether the manifest names
\* the same namespace, another one or none.
C16_NamespaceOverride ==
    aargs.namespace # "" =>
        /\ \A i \in Patches \cup Creates : ahist[i].key[2] = aargs.namespace
        /\ (apc = "done" /\ aerr = "") =>
              /\ ares.namespace = aargs.namespace
              /\ ares = StoredAt(objects, <<agvr.Resource, aargs.namespace, ares.name>>)

\* The manifest names prod, the argument default: the object was created
\* in default and returned from there.
C16_Witness ==
    /\ aargs.namespace = "default"
    /\ aargs.manifest.namespace = "prod"
    /\ apc = "done"
    /\ aerr = ""
    /\ Creates # {}
    /\ ares.namespace = "default"
    /\ <<"deployments", "prod", "web">> \notin DOMAIN objects

\* ------------------------------------------- createOrUpdate: the kind

Parsed == apc # "idle" /\ aargs.manifest.syntax = "object"
HintOrManifestKind == IF aargs.kind # "" THEN aargs.kind ELSE aargs.manifest.kind
ClusterCalls == {i \in DOMAIN ahist : ahist[i].call # "discovery"}

\* C17 as stated: in both variants the kind resolved is the hint if there
\* is one, else the kind of the manifest, and with neither the call fails
\* for the missing kind before any discovery or cluster call.
C17_EffectiveKindBothVariants ==
    Parsed =>
        /\ akind # "none" => akind = HintOrManifestKind
        /\ (HintOrManifestKind = "" /\ apc = "done") =>
              (aerr = "kind-required" /\ ahist = << >>)

\* C17: in the YAML variant the kind resolved is the hint if there is one,
\* else the kind of the manifest, and with neither the call fails for the
\* missing kind before any discovery or cluster call.  The JSON variant
\* resolves its kind argument and nothing else: with an empty argument it
\* asks kind resolution for the empty kind, which makes a discovery call
\* and fails, whatever kind the manifest has, and no cluster call follows.
C17_EffectiveKind ==
    Parsed =>
        /\ aargs.format = "yaml" =>
              /\ akind # "none" => (akind = HintOrManifestKind /\ akind # "")
              /\ (HintOrManifestKind = "" /\ apc = "done") =>
                    (aerr = "kind-required" /\ ahist = << >> /\ akind = "none")
        /\ aargs.format = "json" =>
              /\ akind # "none" => akind = aargs.kind
              /\ apc # "resolve" => akind # "none"
              /\ (aargs.kind = "" /\ apc # "resolve") =>
                    /\ apc = "done"
                    /\ aerr \in {"notfound", "discovery"}
                    /\ Len(ahist) = 1
                    /\ ahist[1].call = "discovery"
                    /\ ClusterCalls = {}

\* A JSON call without a kind argument for a manifest of kind Deployment:
\* one discovery call, and the call failed with kind-not-found.
C17_Witness ==
    /\ aargs.format = "json"
    /\ aargs.kind = ""
    /\ aargs.manifest.kind = "Deployment"
    /\ apc = "done"
    /\ aerr = "notfound"
    /\ akind = ""
    /\ Len(ahist) = 1

\* ------------------------------------- createOrUpdate: failing early

FormatOrKindErrors == {"parse", "notfound", "discovery"}

\* C18: a manifest that is not a well-formed JSON or YAML mapping makes
\* the call fail with the manifest-format error; and a call that fails with
\* that error or with a kind-resolution error has made no namespace call,
\* no patch and no create, and leaves the objects and the namespaces of the
\* cluster as they were when it started.
C18_NoMutationOnEarlyFailure ==
    /\ (apc = "done" /\ aargs.manifest.syntax # "object") => aerr = "parse"
    /\ (apc = "done" /\ aerr \in FormatOrKindErrors) =>
          /\ ClusterCalls = {}
          /\ objects = astart.objects
          /\ namespaces = astart.namespaces

\* A JSON call for the unknown kind Ghost into the missing namespace prod
\* failed in kind resolution, and prod is still missing.
C18_Witness ==
    /\ apc = "done"
    /\ aerr = "notfound"
    /\ aargs.format = "json"
    /\ aargs.kind = "Ghost"
    /\ aargs.namespace = "prod"
    /\ aargs.manifest.name = "web"
    /\ "prod" \notin namespaces

\* -------------------------------------------------------------- no retry

\* No two entries of a call history are the same call to the same target.
OncePerTarget(hist, Key(_)) ==
    \A i, j \in 1..Len(hist) : (i # j) => Key(hist[i]) # Key(hist[j])

CallAndTarget(e) == <<e.call, e.target>>
CallOnly(e) == e.call
ContainerOnly(v) == v.container

\* C19: no operation repeats a cluster call.  In a get, describe, list,
\* delete, metrics or events operation the discovery call and the call of
\* the operation are each made at most once, and a discovery or operation
\* call that fails is the last call of the invocation, which has returned
\* an error.  In createOrUpdate the discovery, the namespace lookup, the
\* namespace create, the patch and the create are each made at most once;
\* in rolloutRestart the discovery and the patch; in GetPodsLogs the pod
\* fetch, and the stream of each container.
C19_NoRetries ==
    /\ OncePerTarget(ohist, CallAndTarget)
    /\ Len(ohist) <= 2
    /\ \A i \in 1..Len(ohist) :
          ohist[i].out \notin {"", "ok"} =>
              /\ i = Len(ohist)
              /\ opc = "done"
              /\ ores.err # ""
              /\ ores.value = << >>
    /\ OncePerTarget(ahist, CallOnly)
    /\ OncePerTarget(rrhist, CallOnly)
    /\ podGets <= 1
    /\ OncePerTarget(visits, ContainerOnly)

\* The delete of the deployment web failed at the server: the invocation
\* has made its discovery call and the one delete, and returned the error.
C19_Witness ==
    /\ opc = "done"
    /\ oargs.op = "DeleteResource"
    /\ Len(ohist) = 2
    /\ ohist[1].call = "discovery"
    /\ ohist[2] = [call |-> "delete", target |-> <<"deployments", "default", "web">>,
                   out |-> "fault"]
    /\ ores.err = "delete"
    /\ <<"deployments", "default", "web">> \in DOMAIN workloads

\* ----------------------------------------------------------- GetIngresses

\* The ingresses the list call returned, and the rules of one that the
\* filter selects.
Listed == {ingresses[i] : i \in 1..Len(ingresses)}
RulesFor(h, ing) == {i \in 1..Len(ing.rules) : h = "" \/ ing.rules[i].host = h}
ReturnedIngresses == {ires.list[i] : i \in 1..Len(ires.list)}
PathSet(ing, R) ==
    UNION {{ing.rules[i].paths[j].path : j \in 1..Len(ing.rules[i].paths)} : i \in R}
ServiceSet(ing, R) ==
    UNION {{ing.rules[i].paths[j].service : j \in 1..Len(ing.rules[i].paths)} : i \in R}
        \ {""}
SeqSet(s) == {s[i] : i \in 1..Len(s)}

\* C20: without a host filter every ingress of the cluster is returned;
\* with a filter exactly the ingresses are returned that have a rule whose
\* host is the filter; the paths and the backend services of a returned
\* ingress are those of its selected rules.
C20_GetIngressesFilter ==
    (ipc = "done" /\ ires.err = "") =>
        /\ {r.name : r \in ReturnedIngresses} =
              IF host = "" THEN {ing.name : ing \in Listed}
              ELSE {ing.name : ing \in {x \in Listed : RulesFor(host, x) # {}}}
        /\ Len(ires.list) = Cardinality(ReturnedIngresses)
        /\ \A r \in ReturnedIngresses : \A ing \in Listed :
              ing.name = r.name =>
                  /\ r.namespace = ing.namespace
                  /\ SeqSet(r.paths) = PathSet(ing, RulesFor(host, ing))
                  /\ SeqSet(r.backendServices) = ServiceSet(ing, RulesFor(host, ing))

\* ------------------------------------------------------------------ delete

DeleteDone == opc = "done" /\ oargs.op = "DeleteResource"
DeleteCalls == {i \in 1..Len(ohist) : ohist[i].call = "delete"}
DeleteKey == <<ogvr.Resource, oargs.namespace, oargs.name>>

\* C21: a DeleteResource call whose kind does not resolve issues no delete
\* call; otherwise it issues exactly one, at the object named, and returns
\* an error exactly when that call failed: a delete of an object that is
\* not there fails, so a delete that repeats a delete that succeeded fails,
\* and after a delete that succeeded the object is gone.
C21_DeleteSurfacesNotFound ==
    DeleteDone =>
        /\ ogvr = NoGVR => (DeleteCalls = {} /\ ores.err \in {"notfound", "discovery"})
        /\ ogvr # NoGVR =>
              /\ DeleteCalls = {Len(ohist)}
              /\ ohist[Len(ohist)].target = DeleteKey
              /\ (ores.err = "") <=> (ohist[Len(ohist)].out = "ok")
              /\ ores.err = "" => DeleteKey \notin DOMAIN workloads
              /\ DeleteKey \in DOMAIN workloads => ohist[Len(ohist)].out = "fault"
        /\ (oprev.args = oargs /\ oprev.res.err = "") =>
              /\ ores.err # ""
              /\ ogvr # NoGVR => ohist[Len(ohist)].out \in {"notfound", "fault"}

\* The same existing object was deleted twice: the first delete succeeded,
\* the second reached the cluster, was answered not-found and failed.
C21_Witness ==
    /\ DeleteDone
    /\ oprev.args = oargs /\ oprev.res.err = ""
    /\ ogvr # NoGVR
    /\ ohist[Len(ohist)].call = "delete" /\ ohist[Len(ohist)].out = "notfound"
    /\ ores.err = "delete"

\* ------------------------------------------------- kind cache: the lock

Holders == cacheLock.readers \cup cacheLock.writer

\* C22: a worker that reads the cache map holds the shared lock and no
\* writer holds the lock then; the map changes only in a step of the
\* worker that holds the exclusive lock; a writer excludes every reader and
\* every other writer; a worker holds a lock only while it reads or writes
\* the map, so none while its discovery call is in flight or after it has
\* returned.
C22_LockDiscipline ==
    /\ [](/\ \A w \in Workers :
               /\ rpc[w] = "read" => (w \in cacheLock.readers /\ cacheLock.writer = {})
               /\ rpc[w] = "store" => cacheLock.writer = {w}
               /\ rpc[w] \notin {"read", "store"} => w \notin Holders
          /\ Cardinality(cacheLock.writer) <= 1
          /\ cacheLock.writer # {} => cacheLock.readers = {})
    /\ [][apiResourceCache' # apiResourceCache =>
             \E w \in Workers :
                 /\ cacheLock.writer = {w} /\ cacheLock.readers = {}
                 /\ rpc[w] = "store" /\ rpc'[w] = "done"]_vars

\* Every worker holds the shared lock at once, after the map was written.
C22_Witness ==
    /\ cacheLock.readers = Workers
    /\ Cardinality(Workers) >= 2
    /\ \A w \in Workers : rpc[w] = "read"
    /\ apiResourceCache # << >>

\* --------------------------------------- kind cache: discovery errors

\* The kind is in a list that answer a returned under a group/version
\* string that parses.
InReturnedPart(a, k) ==
    \E i \in 1..Len(Answers[a].lists) :
        /\ ParseGroupVersion(Answers[a].lists[i].GroupVersion).ok
        /\ \E j \in 1..Len(Answers[a].lists[i].APIResources) :
              Answers[a].lists[i].APIResources[j].Kind = k

\* The workers whose call has returned after a discovery call that was
\* answered with error e.
ReturnedAfter(e) ==
    {w \in Workers : rpc[w] = "done" /\ ndisc[w] = 1 /\ Answers[rans[w]].err = e}

\* C23: a call whose discovery call failed with another error than a
\* partial-group failure has failed with that error and written nothing to
\* the cache; a call whose discovery call failed partially has resolved and
\* cached the kind when the returned part has it, and has failed with
\* not-found, writing nothing, when it has not.
C23_DiscoveryErrors ==
    /\ \A w \in ReturnedAfter("hard") :
          rerr[w] = "discovery" /\ rgvr[w] = NoGVR /\ nstore[w] = 0
    /\ \A w \in ReturnedAfter("partial") :
          IF InReturnedPart(rans[w], rkind[w])
            THEN /\ rerr[w] = "" /\ rgvr[w] # NoGVR /\ nstore[w] = 1
                 /\ rkind[w] \in DOMAIN apiResourceCache
            ELSE rerr[w] = "notfound" /\ rgvr[w] = NoGVR /\ nstore[w] = 0
    /\ \A w \in Workers :
          (rpc[w] \in {"lock", "store"}) => Answers[rans[w]].err # "hard"

\* After partial discovery answers one call resolved and cached a kind of
\* the returned part and another failed with not-found for a kind that an
\* unfailing discovery lists.
C23_Witness ==
    \E w1, w2 \in ReturnedAfter("partial") :
        /\ rerr[w1] = "" /\ rkind[w1] \in DOMAIN apiResourceCache
        /\ rerr[w2] = "notfound" /\ InReturnedPart(1, rkind[w2])

\* ------------------------------------------- kind cache: no eviction

\* The coordinates some discovery answer gives for kind k.
CoordinatesOf(k) ==
    {ScanResourceLists(Answers[a].lists, k).gvr : a \in DOMAIN Answers} \ {NoGVR}

\* C24: the cache is a function from kind names to one coordinate each,
\* and no step removes a kind name from it.
C24_OneEntryPerKindNoEviction ==
    /\ [](/\ apiResourceCache \in
                [DOMAIN apiResourceCache ->
                    UNION {CoordinatesOf(k) : k \in DOMAIN apiResourceCache}]
          /\ \A k \in DOMAIN apiResourceCache : apiResourceCache[k] \in CoordinatesOf(k))
    /\ [][DOMAIN apiResourceCache \subseteq DOMAIN apiResourceCache']_vars

\* Two kinds are cached: one call missed and stored the second, and
\* another call hit the cache, after the first kind was stored.
C24_Witness ==
    /\ Cardinality(DOMAIN apiResourceCache) = 2
    /\ \E w1, w2 \in Workers :
          /\ w1 # w2
          /\ rpc[w1] = "done" /\ ndisc[w1] = 0 /\ rerr[w1] = ""
          /\ rpc[w2] = "done" /\ nstore[w2] = 1 /\ rkind[w2] # rkind[w1]

\* ------------------------------- createOrUpdate: namespace check failures

\* The namespace calls of the current call that failed fatally: a lookup
\* that failed with another error than not-found, a create that failed.
FatalNamespaceCalls ==
    {i \in 1..Len(ahist) :
        \/ ahist[i].call = "nsGet" /\ ahist[i].out \notin {"ok", "notfound"}
        \/ ahist[i].call = "nsCreate" /\ ahist[i].out # "ok"}

\* C25: in the JSON variant a namespace lookup that fails with another
\* error than not-found, and a namespace create that fails after a
\* not-found lookup, is the last cluster call of the call: the call has
\* failed, has issued no patch and no create of the resource, and the
\* objects of the cluster are as they were when it started.
C25_NamespaceFailureIsFatal ==
    \A i \in FatalNamespaceCalls :
        /\ aargs.format = "json"
        /\ i = Len(ahist)
        /\ apc = "done" /\ aerr = "namespace" /\ ares = NoDoc
        /\ \A j \in 1..Len(ahist) : ahist[j].call \notin {"patch", "create"}
        /\ objects = astart.objects
        /\ ahist[i].call = "nsCreate" =>
              (i > 1 /\ ahist[i - 1].call = "nsGet" /\ ahist[i - 1].out = "notfound")

\* A JSON call with a well-formed, named manifest found no namespace, and
\* its namespace create failed.
C25_Witness ==
    /\ apc = "done" /\ aargs.format = "json"
    /\ aobj.name # ""
    /\ Len(ahist) >= 2
    /\ ahist[Len(ahist) - 1].call = "nsGet" /\ ahist[Len(ahist) - 1].out = "notfound"
    /\ ahist[Len(ahist)].call = "nsCreate" /\ ahist[Len(ahist)].out = "fault"
    /\ aerr = "namespace"

\* ------------------------------------------- kind cache: first match

Slashes(gv) == {i \in DOMAIN gv : gv[i] = "/"}

\* The positions <<list, resource>> of a discovery response that carry
\* kind k exactly, in a list whose group/version string has at most one "/".
Matches(lists, k) ==
    {p \in UNION {{<<i, j>> : j \in 1..Len(lists[i].APIResources)} : i \in 1..Len(lists)} :
        /\ Cardinality(Slashes(lists[p[1]].GroupVersion)) <= 1
        /\ lists[p[1]].APIResources[p[2]].Kind = k}

Earlier(p, q) == p[1] < q[1] \/ (p[1] = q[1] /\ p[2] <= q[2])

\* The coordinates at a position: the group is what precedes the "/", the
\* version what follows it, the resource is the name listed.
CoordinateAt(lists, p) ==
    LET gv == lists[p[1]].GroupVersion
        s == Slashes(gv)
        i == IF s = {} THEN 0 ELSE CHOOSE x \in s : TRUE
    IN  [Group |-> SubSeq(gv, 1, i - 1), Version |-> SubSeq(gv, i + 1, Len(gv)),
         Resource |-> lists[p[1]].APIResources[p[2]].Name]

\* C26: a call that missed and returned coordinates returned those of the
\* earliest position of the response it received that carries the kind
\* exactly; a call that failed with not-found received a response with no
\* such position; and the write to the cache stores, under the kind, the
\* coordinates the call returns.
C26_FirstMatchWins ==
    /\ [](\A w \in Workers :
            (rpc[w] = "done" /\ ndisc[w] = 1) =>
                LET lists == Answers[rans[w]].lists
                    M == Matches(lists, rkind[w])
                IN  /\ rerr[w] = "" =>
                          /\ M # {}
                          /\ \E p \in M :
                                /\ \A q \in M : Earlier(p, q)
                                /\ rgvr[w] = CoordinateAt(lists, p)
                    /\ rerr[w] = "notfound" => M = {})
    /\ [][\A w \in Workers :
            (rpc[w] = "store" /\ rpc'[w] = "done") =>
                /\ rkind[w] \in DOMAIN apiResourceCache'
                /\ apiResourceCache'[rkind[w]] = rgvr'[w]
                /\ rgvr'[w] = rgvr[w]]_vars

\* One call resolved a kind that two groups of its response expose to the
\* group listed first; another resolved a kind that is also listed under a
\* group/version string that does not parse, and skipped that list.
C26_Witness ==
    \E w1, w2 \in Workers :
        /\ rpc[w1] = "done" /\ rerr[w1] = "" /\ ndisc[w1] = 1
        /\ Cardinality(Matches(Answers[rans[w1]].lists, rkind[w1])) = 2
        /\ rgvr[w1].Group = <<"extensions">>
        /\ rpc[w2] = "done" /\ rerr[w2] = "" /\ ndisc[w2] = 1
        /\ rkind[w2] = "Widget" /\ rgvr[w2].Resource = "widgets"

\* --------------------------------------- kind cache: stable coordinates

\* C27 (as claimed): no step changes the coordinate the cache holds for a
\* kind, whatever the interleaving of the calls and the changes of the
\* cluster's discovery answer.
C27_CachedCoordinateNeverChanges ==
    [][\A k \in DOMAIN apiResourceCache :
          k \in DOMAIN apiResourceCache' /\ apiResourceCache'[k] = apiResourceCache[k]]_vars

\* ------------------------------------------- concurrent createOrUpdate

\* The object the concurrent calls apply, and the creates that succeeded.
SharedTarget == <<"deployments", pargs.namespace, pargs.manifest.name>>
SucceededCreates ==
    {c \in UNION {{<<w, i>> : i \in 1..Len(phist[w])} : w \in Workers} :
        phist[c[1]][c[2]].call = "create" /\ phist[c[1]][c[2]].out = "ok"}

\* C28 (as claimed): when concurrent createOrUpdate calls with the same
\* manifest, for an object that did not exist when they started, have all
\* returned, each has returned without error and the object was created
\* exactly once.
C28_ConcurrentApplyIdempotent ==
    (/\ \A w \in Workers : ppc[w] = "done"
     /\ pargs.manifest.kind # ""
     /\ pargs.manifest.namespace \in {"", pargs.namespace}
     /\ SharedTarget \notin DOMAIN astart.objects) =>
        /\ \A w \in Workers : perr[w] = ""
        /\ Cardinality(SucceededCreates) = 1

\* ------------------------------------- createOrUpdate: the name check

\* The writes the current call issued: namespace creates, patches, creates.
WriteCalls == {i \in 1..Len(ahist) : ahist[i].call \in {"nsCreate", "patch", "create"}}

\* C29 (as claimed): a JSON call that has failed because the manifest has
\* no name has issued no write, and the namespaces and the objects of the
\* cluster are as they were when it started.
C29_NameRequiredWritesNothing ==
    (apc = "done" /\ aargs.format = "json" /\ aerr = "name-required") =>
        /\ WriteCalls = {}
        /\ namespaces = astart.namespaces
        /\ objects = astart.objects

\* ------------------------------------------- kind cache: termination

Running(w) == rpc[w] \in {"rlock", "read", "discover", "lock", "store"}

\* C30: every call to getCachedGVR that has started returns; while a call
\* is running some call can take a step; and a call that has returned
\* holds no lock.
C30_EveryCallReturns ==
    /\ \A w \in Workers : Running(w) ~> (rpc[w] = "done")
    /\ []((\E w \in Workers : Running(w)) =>
             ENABLED (\E w \in Workers :
                         RLock(w) \/ CacheLookup(w) \/ Discover(w) \/ Lock(w) \/ Store(w)))
    /\ [](\A w \in Workers :
             rpc[w] \in {"idle", "done"} => w \notin cacheLock.readers \cup cacheLock.writer)

\* All the calls have been made and have returned, the lock is free; two
\* workers each took the exclusive lock in their latest call, and among the
\* latest calls one failed or another kind was resolved.
C30_Witness ==
    /\ ncalls = MaxCalls
    /\ \A w \in Workers : rpc[w] = "done"
    /\ cacheLock = [readers |-> {}, writer |-> {}]
    /\ \E w1, w2 \in Workers : w1 # w2 /\ nstore[w1] = 1 /\ nstore[w2] = 1

====
